---- MODULE Spec2Model ----
(***************************************************************************)
(* EMV card reader (sivesa/rfid_card_reader): the discovery driver         *)
(* (read_card), the APDU helpers (send_apdu, get_response, select_pse,     *)
(* select_aid), the record sweep (read_card_records) and the TLV / AID     *)
(* extraction functions, modelled from src/emv_card_reader2.py (the        *)
(* contact driver, variant "contact"), src/emv_acr122u_reader.py (the      *)
(* contactless driver with its reader initialisation, variant "acr122u")   *)
(* and src/emv_card_reader.py (the first driver, variant "v1").            *)
(*                                                                         *)
(* Bytes are the integers 0..255; a Python list of bytes is a sequence.    *)
(* Python indices are 0-based: At(data, i) is data[i].                     *)
(***************************************************************************)
EXTENDS Integers, Sequences, FiniteSets, TLC

(***************************************************************************)
(* Python list helpers                                                     *)
(***************************************************************************)
Min(a, b) == IF a < b THEN a ELSE b

Max(a, b) == IF a > b THEN a ELSE b

\* data[i]
At(data, i) == data[i + 1]

\* data[a:b] for 0 <= a, with Python's clamping of b to len(data)
Slice(data, a, b) == SubSeq(data, a + 1, Min(b, Len(data)))

\* x in list
InList(x, list) == \E k \in 1..Len(list) : list[k] = x

(***************************************************************************)
(* Values of the TLV dictionaries: a raw byte list or a nested dict.  A    *)
(* Python dict is an insertion-ordered sequence of entries; assigning to   *)
(* a key that is already present replaces the value in place.              *)
(***************************************************************************)
RawVal(bytes) == [kind |-> "bytes", bytes |-> bytes]

DictVal(items) == [kind |-> "dict", items |-> items]

HasKey(dict, key) == \E k \in 1..Len(dict) : dict[k].key = key

\* dict[key] = val
DictSet(dict, key, val) ==
    IF HasKey(dict, key)
    THEN [k \in 1..Len(dict) |->
            IF dict[k].key = key THEN [key |-> key, val |-> val] ELSE dict[k]]
    ELSE Append(dict, [key |-> key, val |-> val])

\* The constructed tags parse_tlv recurses into
ParseTlvTemplates == <<\h70, \h77, \hA5, \h6F, \h61, \hBF0C>>

\* tag & 0x20 on the (one- or two-byte) tag integer
TagBit20(tag) == (tag \div 32) % 2 = 1

(***************************************************************************)
(* parse_tlv(data, depth, parent_key): keys are the dotted paths           *)
(* "0x6f.0xa5", modelled as the sequence of tags <<0x6F, 0xA5>>.           *)
(***************************************************************************)
RECURSIVE parse_tlv_loop(_, _, _, _)
parse_tlv_loop(data, i, parent_key, tlv) ==
    IF i >= Len(data) THEN tlv
    ELSE
      LET tag0  == At(data, i)
          multi == (tag0 % 32 = 31) /\ (i + 1 < Len(data))
          tag   == IF multi THEN tag0 * 256 + At(data, i + 1) ELSE tag0
          i2    == IF multi THEN i + 2 ELSE i + 1
      IN
      IF i2 >= Len(data) THEN tlv
      ELSE
        LET length_byte    == At(data, i2)
            i3             == i2 + 1
            long           == length_byte >= 128
            length_nibbles == length_byte % 128
            one            == long /\ length_nibbles = 1 /\ i3 < Len(data)
            length == IF ~long THEN length_byte
                      ELSE IF one THEN At(data, i3)
                      ELSE Min(length_nibbles, Len(data) - i3)
            i4     == IF one THEN i3 + 1 ELSE i3
        IN
        IF i4 + length > Len(data) THEN tlv
        ELSE
          LET value    == Slice(data, i4, i4 + length)
              full_key == parent_key \o <<tag>>
              entry    == IF TagBit20(tag) /\ InList(tag, ParseTlvTemplates)
                          THEN DictVal(parse_tlv_loop(value, 0, full_key, <<>>))
                          ELSE RawVal(value)
          IN parse_tlv_loop(data, i4 + length, parent_key,
                            DictSet(tlv, full_key, entry))

parse_tlv(data) == parse_tlv_loop(data, 0, <<>>, <<>>)

\* get_tag_from_key: the tag after the last dot of the key
get_tag_from_key(key) == key[Len(key)]

(***************************************************************************)
(* extract_aids_from_pse                                                   *)
(***************************************************************************)
\* find_aid_in_tlv: the values appended to aids, in order; the function's
\* "found" result is true exactly when it appended something.
RECURSIVE find_aid_in_tlv(_)
find_aid_in_tlv(tlv_dict) ==
    IF tlv_dict = <<>> THEN <<>>
    ELSE LET e == Head(tlv_dict)
             here == IF get_tag_from_key(e.key) = \h4F /\ e.val.kind = "bytes"
                     THEN <<e.val.bytes>>
                     ELSE IF e.val.kind = "dict"
                          THEN find_aid_in_tlv(e.val.items)
                          ELSE <<>>
         IN here \o find_aid_in_tlv(Tail(tlv_dict))

\* The brute-force scan for the byte 0x4F that runs when TLV parsing found none
RECURSIVE brute_force_aids(_, _)
brute_force_aids(pse_resp, i) ==
    IF i >= Len(pse_resp) - 1 THEN <<>>
    ELSE IF At(pse_resp, i) = \h4F
         THEN LET length == At(pse_resp, i + 1)
              IN IF i + 2 + length <= Len(pse_resp)
                 THEN <<Slice(pse_resp, i + 2, i + 2 + length)>>
                         \o brute_force_aids(pse_resp, i + 2 + length)
                 ELSE brute_force_aids(pse_resp, i + 1)
         ELSE brute_force_aids(pse_resp, i + 1)

\* The aids list before the final fallback substitution
found_aids(pse_resp) ==
    LET via_tlv == find_aid_in_tlv(parse_tlv(pse_resp))
    IN IF via_tlv # <<>> THEN via_tlv ELSE brute_force_aids(pse_resp, 0)

\* extract_aids_from_pse (contact driver): the fallback list replaces an empty result
extract_aids_from_pse(pse_resp, fallback) ==
    IF found_aids(pse_resp) # <<>> THEN found_aids(pse_resp) ELSE fallback

(***************************************************************************)
(* Program constants                                                       *)
(***************************************************************************)
AidMastercard    == <<\hA0, \h00, \h00, \h00, \h04, \h10, \h10>>
AidMastercardAlt == <<\hA0, \h00, \h00, \h00, \h04, \h01>>
AidVisa          == <<\hA0, \h00, \h00, \h00, \h03, \h10, \h10>>
AidVisaAlt       == <<\hA0, \h00, \h00, \h00, \h03, \h80, \h02>>
AidJcb           == <<\hA0, \h00, \h00, \h00, \h65, \h10, \h10>>

\* The list in the order the specification gives it (Visa first)
fallback_aids_visa_first ==
    <<AidVisa, AidMastercard, AidMastercardAlt, AidVisaAlt, AidJcb>>

\* self.fallback_aids of the contact driver
fallback_aids ==
    <<AidMastercard, AidMastercardAlt, AidVisa, AidVisaAlt, AidJcb>>

\* The two direct AIDs the contactless driver tries when PPSE selection fails
acr_fallback_aids == <<AidVisa, AidMastercard>>

\* The single fallback extract_aids_from_ppse of the contactless driver returns
acr_extract_fallback == <<AidMastercard>>

\* "1PAY.SYS.DDF01" and "2PAY.SYS.DDF01"
pse_aid  == <<\h31, \h50, \h41, \h59, \h2E, \h53, \h59, \h53, \h2E,
              \h44, \h44, \h46, \h30, \h31>>
ppse_aid == <<\h32, \h50, \h41, \h59, \h2E, \h53, \h59, \h53, \h2E,
              \h44, \h44, \h46, \h30, \h31>>

\* SELECT_PSE / SELECT_PPSE: no Le byte is appended
SelectDirApdu(v) ==
    IF v = "contact"
    THEN <<\h00, \hA4, \h04, \h00, Len(pse_aid)>> \o pse_aid
    ELSE <<\h00, \hA4, \h04, \h00, Len(ppse_aid)>> \o ppse_aid

\* select_aid: apdu = [0x00, 0xA4, 0x04, 0x00, len(aid)] + aid + [0x00]
SelectAidApdu(aid) == <<\h00, \hA4, \h04, \h00, Len(aid)>> \o aid \o <<\h00>>

\* A get_response that asks for Le = 0 whatever sw2 announced
GetResponseApdu_Le0(length) == <<\h00, \hC0, \h00, \h00, \h00>>

\* get_response: [0x00, 0xC0, 0x00, 0x00, length]
GetResponseApdu(length) == <<\h00, \hC0, \h00, \h00, length>>

\* p2_base = (sfi << 3) | 0x04
P2Base(sfi) == sfi * 8 + 4

\* The same addressing with INS DC (UPDATE RECORD)
ReadRecordApdu_update(sfi, record_num) ==
    <<\h00, \hDC, record_num, P2Base(sfi), \h00>>

\* apdu = [0x00, 0xB2, record_num, p2_base, 0x00]
ReadRecordApdu(sfi, record_num) ==
    <<\h00, \hB2, record_num, P2Base(sfi), \h00>>

\* apdu[-1] = sw2
WithLe(apdu, sw2) == [apdu EXCEPT ![Len(apdu)] = sw2]

\* The reader initialisation APDUs of the contactless driver
InitApdus ==
    << <<\hFF, \h00, \h52, \h00, \h00>>,
       <<\hFF, \h00, \h00, \h00, \h04, \hD4, \h32, \h01, \h01>>,
       <<\hFF, \h00, \h00, \h00, \h05, \hD4, \h32, \h02, \h02, \h00>>,
       <<\hFF, \h00, \h48, \h00, \h00>> >>

\* sfis_to_try
SfisToTry(v) == IF v = "contact" THEN <<1, 2, 3, 4, 5>> ELSE <<1, 2, 3, 4>>

\* for record_num in range(1, 10)
LastRecordNum == 9

\* The three drivers of the repository: emv_card_reader2.py ("contact"),
\* emv_acr122u_reader.py ("acr122u") and emv_card_reader.py ("v1")
Variants == {"contact", "acr122u", "v1"}

(***************************************************************************)
(* The card and the transport.  A reply is what connection.transmit does   *)
(* with one command: it returns (data, sw1, sw2) or raises.                *)
(***************************************************************************)
None == -1

Reply(data, sw1, sw2) == [ok |-> TRUE, data |-> data, sw1 |-> sw1, sw2 |-> sw2]

TransportFailure == [ok |-> FALSE, data |-> <<>>, sw1 |-> None, sw2 |-> None]

\* (resp, sw1, sw2) as the driver holds it
Triple(data, sw1, sw2) == [data |-> data, sw1 |-> sw1, sw2 |-> sw2]

NoneResp == Triple(<<>>, None, None)

\* The status words of the modelled cards besides 9000: 61xx and 6Cxx with
\* the length they announce, the EMV "not found" and "conditions not
\* satisfied" words, and one other error
ErrorStatusWords ==
    {<<\h61, \h12>>, <<\h6C, \h1C>>,
     <<\h6A, \h82>>, <<\h6A, \h83>>, <<\h69, \h85>>, <<\h6F, \h00>>}

ErrorReplies ==
    {Reply(<<>>, sw[1], sw[2]) : sw \in ErrorStatusWords} \cup {TransportFailure}

\* The replies to a command whose data, when it succeeds, is one of payloads
CardReplies(payloads) ==
    {Reply(p, \h90, \h00) : p \in payloads \cup {<<>>}} \cup ErrorReplies

\* BER-TLV encoding (short form) of the documents the modelled card returns
Tlv(tag_bytes, value) == tag_bytes \o <<Len(value)>> \o value

RECURSIVE Concat(_)
Concat(seqs) == IF seqs = <<>> THEN <<>> ELSE Head(seqs) \o Concat(Tail(seqs))

\* One directory entry: 61 { 4F aid, 87 01 }
DirEntry(aid) == Tlv(<<\h61>>, Tlv(<<\h4F>>, aid) \o Tlv(<<\h87>>, <<\h01>>))

DirEntries(aid_list) == Concat([k \in 1..Len(aid_list) |-> DirEntry(aid_list[k])])

\* A PPSE response: 6F { 84 name, A5 { BF0C { entries } } }
PpseDoc(aid_list) ==
    Tlv(<<\h6F>>, Tlv(<<\h84>>, ppse_aid)
                    \o Tlv(<<\hA5>>, Tlv(<<\hBF, \h0C>>, DirEntries(aid_list))))

\* A directory whose entries sit directly in the FCI template: 6F { entries }
FlatDoc(aid_list) == Tlv(<<\h6F>>, DirEntries(aid_list))

AidAmex == <<\hA0, \h00, \h00, \h00, \h25, \h01>>

\* The directory responses of the modelled cards
DriverDirDocs ==
    {FlatDoc(<<>>), PpseDoc(<<AidAmex, AidVisa>>), FlatDoc(<<AidAmex>>)}

\* The FCI a modelled application answers SELECT with
FciDoc ==
    <<\h6F, \h17, \h84, \h07, \hA0, \h00, \h00, \h00, \h03, \h10, \h10,
      \hA5, \h0C, \h50, \h04, \h56, \h49, \h53, \h41, \h87, \h01, \h01>>

\* The record a modelled card holds
RecordDoc ==
    <<\h70, \h13, \h5A, \h08, \h47, \h61, \h73, \h90, \h01, \h01, \h00, \h10,
      \h5F, \h24, \h03, \h25, \h12, \h31>>

\* The modelled cards hold records in these SFIs, at record numbers 1..MaxRecNum
CardRecordSfis == {1, 2}

MaxRecNum == 1

\* A record the card holds answers 9000 (with the record, or with nothing);
\* any READ RECORD may meet an error status or a transport failure
RecordReplies(sfi, record_num) ==
    IF sfi \in CardRecordSfis /\ record_num <= MaxRecNum
    THEN CardReplies({RecordDoc}) ELSE ErrorReplies

InitReplies == {Reply(<<>>, \h90, \h00), Reply(<<>>, \h63, \h00), TransportFailure}

(***************************************************************************)
(* The discovery session (read_card)                                       *)
(***************************************************************************)
VARIABLES
    variant,          \* which driver runs: "contact", "acr122u" or "v1"
    pc,               \* position of read_card
    connection,       \* self.connection: "none", "created", "connected", "disconnected"
    disconnects,      \* number of calls of connection.disconnect()
    error,            \* why read_card returned None
    cur,              \* (resp, sw1, sw2) of the exchange in progress
    wire,             \* the exchanges (command, reply) of the operation in progress
    transportFailed,  \* where connection.transmit has raised: "none", "reader_init", "discovery"
    init_step,        \* next reader initialisation APDU
    pse_resp,         \* the directory response
    aids,             \* the candidate AIDs the driver tries
    aid_idx,          \* index of the candidate being selected
    tried,            \* the AIDs a SELECT was transmitted for, in order
    select_resp,      \* the FCI of the selected application
    selected_aid,     \* the AID the driver selected
    sfi_idx,          \* index into sfis_to_try
    record_num,       \* record number of the sweep
    apdu,             \* the READ RECORD command of the current record
    records,          \* records[sfi][record_num] = payload
    consec_fail,      \* consecutive non-success, non-terminating records in this SFI
    swept,            \* the SFIs whose sweep has started, in order
    eof_high,         \* the highest SFI whose sweep met 6A82, 6A83 or 6985 (0: none)
    saved,            \* save_session_files has written the session artifact
    apdu_log,         \* self.apdu_log (followed in SpecLog)
    cardholder_data,  \* what extract_cardholder_data_fixed returned (SpecCardholder)
    summary,          \* the cardholder fields save_session_files wrote (SpecCardholder)
    data,             \* the byte list handed to parse_tlv_fixed (SpecTlv)
    tlv               \* what parse_tlv_fixed returned (SpecTlv)

vars == <<variant, pc, connection, disconnects, error, cur, wire,
          transportFailed, init_step, pse_resp, aids, aid_idx, tried,
          select_resp, selected_aid, sfi_idx, record_num, apdu, records,
          consec_fail, swept, eof_high, saved, apdu_log,
          cardholder_data, summary, data, tlv>>

\* The variables a specification other than Spec follows
cardVars == <<cardholder_data, summary>>

tlvVars == <<data, tlv>>

otherVars == <<apdu_log, cardVars, tlvVars>>

\* Their values where they are not followed, and before the function has run
OtherInit ==
    /\ apdu_log = <<>>
    /\ cardholder_data = <<>>
    /\ summary = <<>>
    /\ data = <<>>
    /\ tlv = <<>>

dirVars == <<init_step, pse_resp, aids, aid_idx, tried, select_resp, selected_aid>>

sweepVars == <<sfi_idx, record_num, apdu, records, consec_fail, swept, eof_high>>

connVars == <<connection, disconnects, error>>

Init ==
    /\ variant \in Variants
    /\ pc = "INIT"
    /\ connection = "none"
    /\ disconnects = 0
    /\ error = "none"
    /\ cur = NoneResp
    /\ wire = <<>>
    /\ transportFailed = "none"
    /\ init_step = 1
    /\ pse_resp = <<>>
    /\ aids = <<>>
    /\ aid_idx = 1
    /\ tried = <<>>
    /\ select_resp = <<>>
    /\ selected_aid = <<>>
    /\ sfi_idx = 1
    /\ record_num = 1
    /\ apdu = <<>>
    /\ records = <<>>
    /\ consec_fail = 0
    /\ swept = <<>>
    /\ eof_high = 0
    /\ saved = FALSE
    /\ OtherInit

\* A read_card that starts the discovery again after an exception instead
\* of returning
Finish_retry(outcome, why) ==
    IF why \in {"TypeError", "TransportError"}
    THEN /\ pc' = "SELECT_DIR"
         /\ UNCHANGED connVars
    ELSE /\ pc' = outcome
         /\ error' = why
         /\ connection' = IF connection = "none" THEN "none" ELSE "disconnected"
         /\ disconnects' = IF connection = "none" THEN disconnects
                           ELSE disconnects + 1

\* A read_card whose early "return None" paths skip the disconnect
Finish_no_release(outcome, why) ==
    /\ pc' = outcome
    /\ error' = why
    /\ connection' = IF connection = "none" \/ outcome = "FAILED"
                     THEN connection ELSE "disconnected"
    /\ disconnects' = IF connection = "none" \/ outcome = "FAILED"
                      THEN disconnects ELSE disconnects + 1

\* return None / return result, through the finally block of read_card:
\* "if self.connection: self.connection.disconnect()"
Finish(outcome, why) ==
    /\ pc' = outcome
    /\ error' = why
    /\ connection' = IF connection = "none" THEN "none" ELSE "disconnected"
    /\ disconnects' = IF connection = "none" THEN disconnects ELSE disconnects + 1

\* send_apdu: what the caller gets for a reply of the transport.  The contact
\* driver catches CardConnectionException and returns (None, None, None);
\* the contactless driver lets the exception propagate.
send_apdu(v, reply) ==
    [raised |-> ~reply.ok /\ v # "contact",
     resp   |-> IF reply.ok THEN Triple(reply.data, reply.sw1, reply.sw2)
                ELSE NoneResp]

\* What the caller of send_apdu holds when nothing was raised
Got(reply) == send_apdu(variant, reply).resp

\* One call of send_apdu from the discovery steps; next_pc is where the
\* caller continues with the response it got.  wire collects the exchanges of one
\* operation (a SELECT or a READ RECORD with its follow-ups): prior is <<>>
\* for the first exchange of an operation and wire for a follow-up.  An exception leaves through
\* "except Exception" and the finally block of read_card.
Exchange(prior, cmd, reply, next_pc) ==
    LET got == send_apdu(variant, reply)
    IN /\ wire' = Append(prior, [cmd |-> cmd, reply |-> reply])
       /\ transportFailed' = IF reply.ok THEN transportFailed ELSE "discovery"
       /\ IF got.raised
          THEN /\ cur' = cur
               /\ Finish("FAILED", "TransportError")
          ELSE /\ cur' = got.resp
               /\ pc' = next_pc
               /\ UNCHANGED connVars

\* Failure branches that print sw1 without hex(): nothing raises
HexRaises_never(c) == FALSE

\* hex(sw1) in the failure branches raises TypeError when sw1 is None
HexRaises(c) == c.sw1 = None

IsSuccess(c) == c.sw1 = \h90 /\ c.sw2 = \h00

----------------------------------------------------------------------------
\* readers() is empty, or (contactless) the ACR122U is not among them
NoReader ==
    /\ pc = "INIT"
    /\ wire' = <<>>
    /\ Finish("FAILED", "NoReader")
    /\ UNCHANGED <<variant, otherVars, cur, transportFailed, saved>>
    /\ UNCHANGED dirVars
    /\ UNCHANGED sweepVars

\* self.connection = reader.createConnection()
CreateConnection ==
    /\ pc = "INIT"
    /\ pc' = "CONNECT"
    /\ connection' = "created"
    /\ wire' = <<>>
    /\ UNCHANGED <<variant, otherVars, disconnects, error, cur, transportFailed, saved>>
    /\ UNCHANGED dirVars
    /\ UNCHANGED sweepVars

\* self.connection.connect(): succeeds, or raises (no card)
ConnectCard ==
    /\ pc = "CONNECT"
    /\ wire' = <<>>
    /\ \/ /\ connection' = "connected"
          /\ pc' = IF variant = "acr122u" THEN "READER_INIT" ELSE "SELECT_DIR"
          /\ UNCHANGED <<disconnects, error>>
       \/ Finish("FAILED", "CardAbsent")
    /\ UNCHANGED <<variant, otherVars, cur, transportFailed, saved>>
    /\ UNCHANGED dirVars
    /\ UNCHANGED sweepVars

\* The reader initialisation of the contactless driver: four APDUs inside
\* one try block whose "except Exception" only prints a warning.
ReaderInit ==
    /\ pc = "READER_INIT"
    /\ \E reply \in InitReplies :
         /\ wire' = <<[cmd |-> InitApdus[init_step], reply |-> reply]>>
         /\ IF reply.ok
            THEN /\ cur' = Triple(reply.data, reply.sw1, reply.sw2)
                 /\ init_step' = init_step + 1
                 /\ pc' = IF init_step = Len(InitApdus)
                          THEN "SELECT_DIR" ELSE "READER_INIT"
                 /\ UNCHANGED transportFailed
            ELSE /\ cur' = cur
                 /\ init_step' = Len(InitApdus) + 1
                 /\ pc' = "SELECT_DIR"
                 /\ transportFailed' = "reader_init"
    /\ UNCHANGED <<variant, otherVars, saved, pse_resp, aids, aid_idx, tried,
                   select_resp, selected_aid>>
    /\ UNCHANGED connVars
    /\ UNCHANGED sweepVars

----------------------------------------------------------------------------
\* After select_pse / select_aid sent the command: GET RESPONSE on 61xx
AfterSelect(c, get_resp, result) == IF c.sw1 = \h61 THEN get_resp ELSE result

\* select_pse / select_ppse: the SELECT of the directory
SelectDir ==
    /\ pc = "SELECT_DIR"
    /\ \E reply \in CardReplies(DriverDirDocs) :
         Exchange(<<>>, SelectDirApdu(variant), reply,
                  AfterSelect(Got(reply), "SELECT_DIR_GR", "SELECT_DIR_RESULT"))
    /\ UNCHANGED <<variant, otherVars, saved>>
    /\ UNCHANGED dirVars
    /\ UNCHANGED sweepVars

\* select_pse: "if sw1 == 0x61: resp, sw1, sw2 = self.get_response(sw2)"
SelectDirGetResponse ==
    /\ pc = "SELECT_DIR_GR"
    /\ \E reply \in CardReplies(DriverDirDocs) :
         Exchange(wire, GetResponseApdu(cur.sw2), reply, "SELECT_DIR_RESULT")
    /\ UNCHANGED <<variant, otherVars, saved>>
    /\ UNCHANGED dirVars
    /\ UNCHANGED sweepVars

\* The candidates when the directory gave nothing
FallbackCandidates(v) == IF v = "contact" THEN fallback_aids ELSE acr_fallback_aids

\* select_pse returns resp on 9000 and None otherwise; read_card then goes
\* on with "if pse_resp:" (contact), "if not ppse_resp:" and the two direct
\* AIDs (acr122u), or "if not ppse_resp: return None" (v1).
\* resp, sw1, sw2 are locals of select_pse: cur is cleared on return.
SelectDirResult ==
    /\ pc = "SELECT_DIR_RESULT"
    /\ wire' = <<>>
    /\ IF IsSuccess(cur) /\ cur.data # <<>>
       THEN /\ pse_resp' = cur.data
            /\ pc' = "ENUMERATE_AIDS"
            /\ UNCHANGED <<aids, connVars>>
       ELSE IF ~IsSuccess(cur) /\ HexRaises(cur)
       THEN /\ Finish("FAILED", "TypeError")
            /\ UNCHANGED <<pse_resp, aids>>
       ELSE IF variant = "v1"
       THEN /\ Finish("FAILED", "DirectoryUnavailable")
            /\ UNCHANGED <<pse_resp, aids>>
       ELSE /\ aids' = FallbackCandidates(variant)
            /\ pc' = "SELECT_APP"
            /\ UNCHANGED <<pse_resp, connVars>>
    /\ cur' = NoneResp
    /\ UNCHANGED <<variant, otherVars, transportFailed, saved, init_step, aid_idx,
                   tried, select_resp, selected_aid>>
    /\ UNCHANGED sweepVars

\* The candidates read_card takes from a directory response.  Contact:
\* aids = extract_aids_from_pse(pse_resp), "if not aids: aids = fallback_aids",
\* then "for aid in aids".  Contactless: aids = extract_aids_from_ppse(...),
\* then only aids[0] is selected.
Candidates(v, resp) ==
    IF v = "contact"
    THEN LET a == extract_aids_from_pse(resp, fallback_aids)
         IN IF a = <<>> THEN fallback_aids ELSE a
    ELSE LET a == extract_aids_from_pse(resp, acr_extract_fallback)
         IN <<a[1]>>

EnumerateAids ==
    /\ pc = "ENUMERATE_AIDS"
    /\ wire' = <<>>
    /\ aids' = Candidates(variant, pse_resp)
    /\ pc' = "SELECT_APP"
    /\ UNCHANGED <<variant, otherVars, cur, transportFailed, saved, init_step, pse_resp,
                   aid_idx, tried, select_resp, selected_aid>>
    /\ UNCHANGED connVars
    /\ UNCHANGED sweepVars

\* select_aid(aid): the SELECT of the candidate aids[aid_idx]
SelectApp ==
    /\ pc = "SELECT_APP"
    /\ tried' = Append(tried, aids[aid_idx])
    /\ \E reply \in CardReplies({FciDoc}) :
         Exchange(<<>>, SelectAidApdu(aids[aid_idx]), reply,
                  AfterSelect(Got(reply), "SELECT_APP_GR", "SELECT_APP_RESULT"))
    /\ UNCHANGED <<variant, otherVars, saved, init_step, pse_resp, aids, aid_idx,
                   select_resp, selected_aid>>
    /\ UNCHANGED sweepVars

\* select_aid: "if sw1 == 0x61: resp, sw1, sw2 = self.get_response(sw2)"
SelectAppGetResponse ==
    /\ pc = "SELECT_APP_GR"
    /\ \E reply \in CardReplies({FciDoc}) :
         Exchange(wire, GetResponseApdu(cur.sw2), reply, "SELECT_APP_RESULT")
    /\ UNCHANGED <<variant, otherVars, saved>>
    /\ UNCHANGED dirVars
    /\ UNCHANGED sweepVars

\* What select_aid returns: resp on 9000, None otherwise; read_card tests
\* its truth ("if select_resp:" / "if not select_resp:").
Selected(c) == IsSuccess(c) /\ c.data # <<>>

\* A read_card that gives up after the first candidate
MoreCandidates_first_only(list, idx) == FALSE

\* "for aid in aids:" has another candidate after aids[idx]
MoreCandidates(list, idx) == idx < Len(list)

\* select_aid returns; read_card takes the application or the next candidate
SelectAppResult ==
    /\ pc = "SELECT_APP_RESULT"
    /\ wire' = <<>>
    /\ IF Selected(cur)
       THEN /\ select_resp' = cur.data
            /\ selected_aid' = aids[aid_idx]
            /\ pc' = "PARSE_FCI"
            /\ UNCHANGED <<aid_idx, connVars>>
       ELSE IF ~IsSuccess(cur) /\ HexRaises(cur)
       THEN /\ Finish("FAILED", "TypeError")
            /\ UNCHANGED <<select_resp, selected_aid, aid_idx>>
       ELSE IF MoreCandidates(aids, aid_idx)
       THEN /\ aid_idx' = aid_idx + 1
            /\ pc' = "SELECT_APP"
            /\ UNCHANGED <<select_resp, selected_aid, connVars>>
       ELSE /\ Finish("FAILED", "NoApplicationSelectable")
            /\ UNCHANGED <<select_resp, selected_aid, aid_idx>>
    /\ cur' = NoneResp
    /\ UNCHANGED <<variant, otherVars, transportFailed, saved, init_step, pse_resp,
                   aids, tried>>
    /\ UNCHANGED sweepVars

\* fci_info = self.parse_fci_fixed(select_resp); read_card_records starts
ParseFci ==
    /\ pc = "PARSE_FCI"
    /\ wire' = <<>>
    /\ pc' = "READ_RECORDS"
    /\ UNCHANGED <<variant, otherVars, cur, transportFailed, saved>>
    /\ UNCHANGED dirVars
    /\ UNCHANGED connVars
    /\ UNCHANGED sweepVars

----------------------------------------------------------------------------
(***************************************************************************)
(* read_card_records: for sfi in sfis_to_try, for record_num in 1..9       *)
(***************************************************************************)
Sfi == SfisToTry(variant)[sfi_idx]

\* Where the loop body continues after each of its four possible exchanges
AfterRead(c) ==
    IF c.sw1 = \h61 THEN "RR_GR1"
    ELSE IF c.sw1 = \h6C /\ c.sw2 <= 256 THEN "RR_REISSUE"
    ELSE "RR_CLASSIFY"

AfterGetResponse1(c) ==
    IF c.sw1 = \h6C /\ c.sw2 <= 256 THEN "RR_REISSUE" ELSE "RR_CLASSIFY"

AfterReissue(c) == IF c.sw1 = \h61 THEN "RR_GR2" ELSE "RR_CLASSIFY"

\* resp, sw1, sw2 = self.send_apdu([0x00, 0xB2, record_num, p2_base, 0x00])
ReadRecord ==
    /\ pc = "READ_RECORDS"
    /\ apdu' = ReadRecordApdu(Sfi, record_num)
    /\ records' = IF record_num = 1 THEN (Sfi :> <<>>) @@ records ELSE records
    /\ swept' = IF record_num = 1 THEN Append(swept, Sfi) ELSE swept
    /\ \E reply \in RecordReplies(Sfi, record_num) :
         Exchange(<<>>, ReadRecordApdu(Sfi, record_num), reply, AfterRead(Got(reply)))
    /\ UNCHANGED <<variant, otherVars, saved, sfi_idx, record_num, consec_fail, eof_high>>
    /\ UNCHANGED dirVars

\* "if sw1 == 0x61: resp, sw1, sw2 = self.get_response(sw2)"
ReadRecordGetResponse ==
    /\ pc = "RR_GR1"
    /\ \E reply \in RecordReplies(Sfi, record_num) :
         Exchange(wire, GetResponseApdu(cur.sw2), reply,
                  AfterGetResponse1(Got(reply)))
    /\ UNCHANGED <<variant, otherVars, saved>>
    /\ UNCHANGED dirVars
    /\ UNCHANGED sweepVars

\* "if sw1 == 0x6C and sw2 <= 256: apdu[-1] = sw2; ... = self.send_apdu(apdu)"
ReadRecordReissue ==
    /\ pc = "RR_REISSUE"
    /\ apdu' = WithLe(apdu, cur.sw2)
    /\ \E reply \in RecordReplies(Sfi, record_num) :
         Exchange(wire, WithLe(apdu, cur.sw2), reply,
                  AfterReissue(Got(reply)))
    /\ UNCHANGED <<variant, otherVars, saved, sfi_idx, record_num, records, consec_fail,
                   swept, eof_high>>
    /\ UNCHANGED dirVars

\* The GET RESPONSE after the reissued READ RECORD
ReadRecordReissueGetResponse ==
    /\ pc = "RR_GR2"
    /\ \E reply \in RecordReplies(Sfi, record_num) :
         Exchange(wire, GetResponseApdu(cur.sw2), reply, "RR_CLASSIFY")
    /\ UNCHANGED <<variant, otherVars, saved>>
    /\ UNCHANGED dirVars
    /\ UNCHANGED sweepVars

\* The status words the card uses to say that an SFI has nothing more to
\* give: 6A82, 6A83 (no such file / record) and 6985 (access denied).
\* eof_high records the highest SFI that got one, whatever the driver did
\* with it.
TerminalStatus(c) ==
    <<c.sw1, c.sw2>> \in {<<\h6A, \h82>>, <<\h6A, \h83>>, <<\h69, \h85>>}

\* "if sw1 == 0x90 and sw2 == 0x00 and resp and len(resp) > 0"
RecordStored(c) == IsSuccess(c) /\ c.data # <<>>

\* A loop body without the "elif sw1 == 0x69 and sw2 == 0x85" branch
EndsSweep_no_denied(c) == c.sw1 = \h6A /\ c.sw2 \in {\h82, \h83}

\* The two break branches: 6A82 / 6A83 (end of records) and 6985 (access denied)
EndsSweep(c) ==
    \/ c.sw1 = \h6A /\ c.sw2 \in {\h82, \h83}
    \/ c.sw1 = \h69 /\ c.sw2 = \h85

\* An inner loop that also stops after 5 consecutive failures
MoreRecords_five_failures(n, fails) == n < LastRecordNum /\ fails < 5

\* An inner loop "for record_num in range(1, 11)"
MoreRecords_through_ten(n, fails) == n < LastRecordNum + 1

\* The inner loop "for record_num in range(1, 10)" has another iteration
MoreRecords(n, fails) == n < LastRecordNum

\* An outer loop that leaves out the last SFI of the list
MoreSfis_skip_last(v, idx) == idx < Len(SfisToTry(v)) - 1

\* The outer loop "for sfi in sfis_to_try" has another iteration
MoreSfis(v, idx) == idx < Len(SfisToTry(v))

\* The sweep of this SFI is over: the next SFI, or read_card_records returns
NextSfi ==
    /\ consec_fail' = 0
    /\ IF MoreSfis(variant, sfi_idx)
       THEN /\ sfi_idx' = sfi_idx + 1
            /\ record_num' = 1
            /\ pc' = "READ_RECORDS"
       ELSE /\ pc' = "EXTRACT"
            /\ UNCHANGED <<sfi_idx, record_num>>

\* The next record number of this SFI, or the next SFI after the last one
NextRecord(fails) ==
    IF MoreRecords(record_num, fails)
    THEN /\ record_num' = record_num + 1
         /\ consec_fail' = fails
         /\ pc' = "READ_RECORDS"
         /\ UNCHANGED sfi_idx
    ELSE NextSfi

\* The if / elif chain that ends the loop body.  apdu, resp, sw1, sw2 are
\* assigned afresh by the next iteration: they are cleared here.
ReadRecordClassify ==
    /\ pc = "RR_CLASSIFY"
    /\ wire' = <<>>
    /\ IF RecordStored(cur)
       THEN /\ records' = [records EXCEPT ![Sfi] = (record_num :> cur.data) @@ @]
            /\ NextRecord(0)
            /\ UNCHANGED connVars
       ELSE IF EndsSweep(cur)
       THEN /\ NextSfi
            /\ UNCHANGED <<records, connVars>>
       ELSE IF HexRaises(cur)
       THEN /\ Finish("FAILED", "TypeError")
            /\ UNCHANGED <<records, sfi_idx, record_num, consec_fail>>
       ELSE /\ NextRecord(IF IsSuccess(cur) THEN 0 ELSE consec_fail + 1)
            /\ UNCHANGED <<records, connVars>>
    /\ eof_high' = IF TerminalStatus(cur) THEN Max(eof_high, Sfi) ELSE eof_high
    /\ cur' = NoneResp
    /\ apdu' = <<>>
    /\ UNCHANGED <<variant, otherVars, transportFailed, saved, swept>>
    /\ UNCHANGED dirVars

\* cardholder_data = self.extract_cardholder_data_fixed(records)
Extract ==
    /\ pc = "EXTRACT"
    /\ wire' = <<>>
    /\ pc' = "SAVE"
    /\ UNCHANGED <<variant, otherVars, cur, transportFailed, saved>>
    /\ UNCHANGED dirVars
    /\ UNCHANGED connVars
    /\ UNCHANGED sweepVars

\* session_path = self.save_session_files(...); return {...}
Save ==
    /\ pc = "SAVE"
    /\ wire' = <<>>
    /\ saved' = TRUE
    /\ Finish("DONE", "none")
    /\ UNCHANGED <<variant, otherVars, cur, transportFailed>>
    /\ UNCHANGED dirVars
    /\ UNCHANGED sweepVars

Next ==
    \/ NoReader
    \/ CreateConnection
    \/ ConnectCard
    \/ ReaderInit
    \/ SelectDir
    \/ SelectDirGetResponse
    \/ SelectDirResult
    \/ EnumerateAids
    \/ SelectApp
    \/ SelectAppGetResponse
    \/ SelectAppResult
    \/ ParseFci
    \/ ReadRecord
    \/ ReadRecordGetResponse
    \/ ReadRecordReissue
    \/ ReadRecordReissueGetResponse
    \/ ReadRecordClassify
    \/ Extract
    \/ Save

Spec == Init /\ [][Next]_vars

TypeOK ==
    /\ variant \in Variants
    /\ disconnects \in 0..1
    /\ record_num \in 1..LastRecordNum

----------------------------------------------------------------------------
(***************************************************************************)
(* Vocabulary of the properties                                            *)
(***************************************************************************)
\* The stages at which an operation hands its result to its caller
ResultStages == {"SELECT_DIR_RESULT", "SELECT_APP_RESULT", "RR_CLASSIFY"}

\* The stages of one READ RECORD after its first transmission
RecordStages == {"RR_GR1", "RR_REISSUE", "RR_GR2", "RR_CLASSIFY"}

\* The stages of the application selection, and the two it leads to: the
\* candidates and the AIDs tried do not change after them
SelectionStages ==
    {"SELECT_APP", "SELECT_APP_GR", "SELECT_APP_RESULT", "PARSE_FCI", "FAILED"}

\* This step transmits an APDU
Transmits == wire' # <<>> /\ wire' # wire

\* SELECT (INS A4) and READ RECORD (INS B2), as opposed to GET RESPONSE
IsCommand(cmd) == cmd[2] \in {\hA4, \hB2}

IsPrefix(s, t) == Len(s) <= Len(t) /\ SubSeq(t, 1, Len(s)) = s

\* The reply is (payload, 0x90, 0x00)
Is9000(reply) == reply.ok /\ reply.sw1 = \h90 /\ reply.sw2 = \h00

\* The reply is (empty, sw1, K)
IsEmptyWith(reply, sw1) == reply.ok /\ reply.data = <<>> /\ reply.sw1 = sw1

----------------------------------------------------------------------------
\* C1  Status-word chaining.  Whenever the card answers (empty, 0x61, K) to
\* a directory SELECT, an application SELECT or a READ RECORD, the driver
\* does not take that answer as the result: the next APDU is GET RESPONSE
\* 00 C0 00 00 K, and if the card answers it with (payload, 0x9000) there is
\* no further exchange and the result of the operation is (payload, 0x9000).
C1_StatusWordChaining ==
    \A k \in 1..Len(wire) :
      (IsCommand(wire[k].cmd) /\ IsEmptyWith(wire[k].reply, \h61)) =>
        /\ ~(k = Len(wire) /\ pc \in ResultStages)
        /\ k < Len(wire) =>
             /\ wire[k+1].cmd = <<\h00, \hC0, \h00, \h00, wire[k].reply.sw2>>
             /\ Is9000(wire[k+1].reply) =>
                  /\ Len(wire) = k + 1
                  /\ pc \in ResultStages
                  /\ cur = Triple(wire[k+1].reply.data, \h90, \h00)

\* A READ RECORD answered 61xx whose GET RESPONSE brought the record
C1_Witness ==
    /\ pc = "RR_CLASSIFY"
    /\ Len(wire) = 2
    /\ wire[1].cmd[2] = \hB2
    /\ IsEmptyWith(wire[1].reply, \h61)
    /\ Is9000(wire[2].reply)
    /\ cur.data = RecordDoc

\* C2  Wrong-length retry, as the specification states it for every
\* command: whenever the card answers (empty, 0x6C, K) to the first
\* transmission of a directory SELECT, an application SELECT or a READ
\* RECORD, the driver does not take that answer as the result: it sends the
\* same command again with only the last byte replaced by K, and if the card
\* then answers (payload, 0x9000) the operation returns payload as a success.
C2_WrongLengthRetry ==
    (wire # <<>> /\ IsCommand(wire[1].cmd) /\ IsEmptyWith(wire[1].reply, \h6C)) =>
        /\ ~(Len(wire) = 1 /\ pc \in ResultStages)
        /\ Len(wire) > 1 =>
             /\ wire[2].cmd = [wire[1].cmd EXCEPT ![Len(wire[1].cmd)] = wire[1].reply.sw2]
             /\ Is9000(wire[2].reply) =>
                  /\ pc \in ResultStages
                  /\ cur = Triple(wire[2].reply.data, \h90, \h00)

\* C3  Record sweep as the code runs it: an attempt that neither stores a
\* record nor meets 6A82 / 6A83 / 6985 never ends the sweep of its SFI,
\* however many came before it; the sweep goes on with the next record
\* number up to record LastRecordNum and only then leaves the SFI.
C3_SweepRunsToLastRecord ==
    [][(pc = "RR_CLASSIFY" /\ cur.sw1 # None
          /\ ~(IsSuccess(cur) /\ cur.data # <<>>) /\ ~TerminalStatus(cur)) =>
         IF record_num < LastRecordNum
         THEN pc' = "READ_RECORDS" /\ sfi_idx' = sfi_idx
              /\ record_num' = record_num + 1
         ELSE pc' = "EXTRACT" \/ (pc' = "READ_RECORDS" /\ sfi_idx' = sfi_idx + 1
                                   /\ record_num' = 1)]_vars

\* A READ RECORD sent in an SFI whose last five (or more) attempts all
\* failed
C3_Witness ==
    /\ pc \in RecordStages
    /\ consec_fail >= 5
    /\ record_num = consec_fail + 1

\* C3 as the specification states it: after 5 consecutive non-success
\* attempts within one SFI no further READ RECORD is sent for that SFI.
C3_FiveFailureRule == consec_fail >= 5 => pc \notin RecordStages

\* C4  Sweep end of file.  When the final status of a READ RECORD is 6A82,
\* 6A83 or 6985 nothing is stored for that record, and no READ RECORD is
\* ever sent again for an SFI that met one of these statuses.
C4_SweepEndOfFile ==
    /\ [](pc \in RecordStages =>
            /\ Sfi > eof_high
            /\ \A k \in 1..Len(wire) :
                 wire[k].cmd[2] = \hB2 => wire[k].cmd[4] = Sfi * 8 + 4)
    /\ [][(pc = "RR_CLASSIFY" /\ TerminalStatus(cur)) =>
            records' = records /\ eof_high' >= Sfi]_vars

\* A READ RECORD in flight for a later SFI after an earlier SFI met a
\* terminating status at a record number above 1
C4_Witness ==
    /\ pc \in RecordStages
    /\ eof_high >= 1
    /\ eof_high < Sfi
    /\ records[eof_high] # <<>>

\* C5  SFI independence.  The SFIs are swept in ascending order, each sweep
\* starting with READ RECORD of record 1, and whatever status ended the
\* sweep of an SFI every later SFI is swept too: the session reaches the
\* extraction only with every SFI of the list swept, and once the sweep has
\* begun only a transport failure ends the session before that.
C5_SfiIndependence ==
    /\ IsPrefix(swept, SfisToTry(variant))
    /\ pc \in RecordStages =>
         /\ swept # <<>> /\ swept[Len(swept)] = Sfi
         /\ wire[1].cmd = <<\h00, \hB2, record_num, Sfi * 8 + 4, \h00>>
    /\ pc \in {"EXTRACT", "SAVE", "DONE"} => swept = SfisToTry(variant)
    /\ (pc = "FAILED" /\ swept # <<>>) => transportFailed = "discovery"

\* Every SFI was swept although the last but one ended with a terminating
\* status
C5_Witness ==
    /\ pc = "EXTRACT"
    /\ swept = SfisToTry(variant)
    /\ eof_high = Len(swept) - 1

\* The directory gave no AID: its SELECT failed, or the response holds no
\* byte 0x4F
DirectoryYieldsNothing ==
    pse_resp = <<>> \/ \A i \in 1..Len(pse_resp) : pse_resp[i] # \h4F

\* The directory response holds aid as the value of an element 0x4F
InDirectory(aid) ==
    \E i \in 1..Len(pse_resp) :
      /\ i + 1 + Len(aid) <= Len(pse_resp)
      /\ SubSeq(pse_resp, i, i + 1 + Len(aid)) = <<\h4F, Len(aid)>> \o aid

\* read_card returned None because no candidate was selected
SelectionFailed == pc = "FAILED" /\ error = "NoApplicationSelectable"

\* The card accepted the last SELECT of the operation in progress with a
\* non-empty response
LastAccepted ==
    /\ wire # <<>>
    /\ Is9000(wire[Len(wire)].reply)
    /\ wire[Len(wire)].reply.data # <<>>

\* C6  Fallback AID list as emv_card_reader2.py runs it: whenever the
\* directory gives no AID, the driver sends application SELECT for
\* A0000000041010, A00000000401, A0000000031010, A0000000038002,
\* A0000000651010 in exactly that order, goes on with the first one the
\* card answers with 9000 and a non-empty response, and ends FAILED for
\* want of an application only after all five were tried.
C6_FallbackOrder ==
    /\ []((variant = "contact" /\ pc \in SelectionStages
             /\ DirectoryYieldsNothing) =>
            /\ IsPrefix(tried,
                 << <<\hA0, \h00, \h00, \h00, \h04, \h10, \h10>>,
                    <<\hA0, \h00, \h00, \h00, \h04, \h01>>,
                    <<\hA0, \h00, \h00, \h00, \h03, \h10, \h10>>,
                    <<\hA0, \h00, \h00, \h00, \h03, \h80, \h02>>,
                    <<\hA0, \h00, \h00, \h00, \h65, \h10, \h10>> >>)
            /\ SelectionFailed => Len(tried) = 5
            /\ pc = "PARSE_FCI" =>
                 selected_aid = tried[Len(tried)] /\ select_resp # <<>>)
    /\ [][(variant = "contact" /\ pc = "SELECT_APP_RESULT"
             /\ DirectoryYieldsNothing) =>
            IF LastAccepted
            THEN pc' = "PARSE_FCI" /\ selected_aid' = tried[Len(tried)]
            ELSE pc' # "PARSE_FCI"]_vars

\* The directory SELECT failed, Mastercard and its alternative were
\* rejected and Visa, third in the list, was selected
C6_Witness ==
    /\ variant = "contact"
    /\ pse_resp = <<>>
    /\ pc = "PARSE_FCI"
    /\ tried = <<AidMastercard, AidMastercardAlt, AidVisa>>
    /\ selected_aid = AidVisa

\* C6 as the specification states it: the fallback AIDs are tried in the
\* order A0000000031010, A0000000041010, A00000000401, A0000000038002,
\* A0000000651010, and FAILED comes only after all five were rejected.
C6_FallbackOrderVisaFirst ==
    (variant = "contact" /\ pc \in SelectionStages
       /\ DirectoryYieldsNothing) =>
      /\ IsPrefix(tried,
           << <<\hA0, \h00, \h00, \h00, \h03, \h10, \h10>>,
              <<\hA0, \h00, \h00, \h00, \h04, \h10, \h10>>,
              <<\hA0, \h00, \h00, \h00, \h04, \h01>>,
              <<\hA0, \h00, \h00, \h00, \h03, \h80, \h02>>,
              <<\hA0, \h00, \h00, \h00, \h65, \h10, \h10>> >>)
      /\ SelectionFailed => Len(tried) = 5

\* C7  Rejected application SELECT as the code runs it: the AIDs sent are
\* the candidates taken from the directory, in order, each of them an AID
\* the directory response holds; emv_card_reader2.py goes to the next
\* enumerated AID after a rejection and ends FAILED when all of them were
\* rejected, without entering the fallback list; emv_card_reader.py and
\* emv_acr122u_reader.py send only the first enumerated AID and end FAILED
\* when it is rejected.
C7_RejectedSelect ==
    (pc \in SelectionStages /\ ~DirectoryYieldsNothing) =>
      /\ IsPrefix(tried, aids)
      /\ \A k \in 1..Len(tried) : InDirectory(tried[k])
      /\ variant # "contact" => Len(tried) <= 1
      /\ pc = "SELECT_APP" => Len(tried) < Len(aids)
      /\ SelectionFailed =>
           tried = IF variant = "contact" THEN aids ELSE <<aids[1]>>
      /\ pc = "PARSE_FCI" => selected_aid = tried[Len(tried)]

\* Both enumerated AIDs were rejected and the session failed with no
\* fallback AID tried
C7_Witness ==
    /\ variant = "contact"
    /\ SelectionFailed
    /\ aids = <<AidAmex, AidVisa>>
    /\ tried = <<AidAmex, AidVisa>>

\* C7 as the specification states it: when every enumerated AID has been
\* rejected the fallback list is entered, so a session that ends FAILED
\* for want of an application has tried every fallback AID.
C7_FallbackAfterEnumerated ==
    (SelectionFailed /\ ~DirectoryYieldsNothing) =>
      \A k \in 1..Len(fallback_aids) : InList(fallback_aids[k], tried)

\* C9  Transport failure as the code handles it: when the transport fails
\* during a transmit of the discovery (directory SELECT, application
\* SELECT, READ RECORD, GET RESPONSE), no further APDU is transmitted, no
\* session artifact is saved and the read ends in failure with its next
\* step; a failure during a reader-initialisation APDU of
\* emv_acr122u_reader.py only ends the initialisation, and the discovery
\* starts with the directory SELECT.
C9_TransportFailureFatal ==
    /\ [](transportFailed = "discovery" =>
            ~saved /\ pc \in ResultStages \cup {"FAILED"})
    /\ [][transportFailed = "discovery" =>
            ~Transmits /\ pc' = "FAILED" /\ ~saved']_vars
    /\ [][(transportFailed = "none" /\ transportFailed' = "reader_init") =>
            pc' = "SELECT_DIR"]_vars

\* The contact driver failed in the middle of the record sweep and has
\* returned
C9_Witness ==
    /\ variant = "contact"
    /\ transportFailed = "discovery"
    /\ pc = "FAILED"
    /\ error = "TypeError"
    /\ swept # <<>>
    /\ ~saved

\* C9 as the specification states it: after a transport failure during any
\* transmit, reader-initialisation APDUs included, no further APDU is
\* transmitted.
C9_AnyFailureFatal == [][transportFailed # "none" => ~Transmits]_vars

\* C10  Guaranteed release.  While the session runs there is no disconnect;
\* once it has ended, on success or on any failure, disconnect was invoked
\* exactly once if the connection was created (and never otherwise), and no
\* APDU is transmitted after the disconnect.
C10_GuaranteedRelease ==
    /\ [](IF pc \in {"DONE", "FAILED"}
          THEN disconnects = (IF connection = "none" THEN 0 ELSE 1)
          ELSE disconnects = 0 /\ connection # "disconnected")
    /\ [][disconnects > 0 => ~Transmits /\ disconnects' = disconnects]_vars

\* An early FAILED return of the selection, with the connection released
C10_Witness ==
    /\ SelectionFailed
    /\ connection = "disconnected"
    /\ disconnects = 1

----------------------------------------------------------------------------
(***************************************************************************)
(* extract_aids_from_pse as a function of the directory response: the     *)
(* driver holds the response of a card whose directory lists up to         *)
(* MaxDirEntries applications, in one of three layouts, and extracts.      *)
(***************************************************************************)
MaxDirEntries == 3

\* The AIDs a modelled directory may list (repetitions allowed)
DirectoryAids == {AidAmex, AidVisa, AidMastercard}

\* 6F { A5 { entries } }
NestedDoc(aid_list) == Tlv(<<\h6F>>, Tlv(<<\hA5>>, DirEntries(aid_list)))

DirDoc(layout, entries) ==
    CASE layout = "flat"   -> FlatDoc(entries)
      [] layout = "nested" -> NestedDoc(entries)
      [] layout = "ppse"   -> PpseDoc(entries)

Directories ==
    {[layout |-> l, entries |-> e] :
        l \in {"flat", "nested", "ppse"},
        e \in UNION {[1..n -> DirectoryAids] : n \in 0..MaxDirEntries}}

Init_Aids ==
    /\ variant = "contact"
    /\ pc = "EXTRACT_AIDS"
    /\ pse_resp \in {DirDoc(d.layout, d.entries) : d \in Directories}
    /\ aids = <<>>
    /\ connection = "connected"
    /\ disconnects = 0
    /\ error = "none"
    /\ cur = NoneResp
    /\ wire = <<>>
    /\ transportFailed = "none"
    /\ init_step = 1
    /\ aid_idx = 1
    /\ tried = <<>>
    /\ select_resp = <<>>
    /\ selected_aid = <<>>
    /\ sfi_idx = 1
    /\ record_num = 1
    /\ apdu = <<>>
    /\ records = <<>>
    /\ consec_fail = 0
    /\ swept = <<>>
    /\ eof_high = 0
    /\ saved = FALSE
    /\ OtherInit

\* aids = self.extract_aids_from_pse(pse_resp)
ExtractAids ==
    /\ pc = "EXTRACT_AIDS"
    /\ aids' = extract_aids_from_pse(pse_resp, fallback_aids)
    /\ pc' = "AIDS_EXTRACTED"
    /\ UNCHANGED <<variant, otherVars, cur, wire, transportFailed, saved, init_step,
                   pse_resp, aid_idx, tried, select_resp, selected_aid>>
    /\ UNCHANGED connVars
    /\ UNCHANGED sweepVars

Next_Aids == ExtractAids

SpecAids == Init_Aids /\ [][Next_Aids]_vars

\* The directory a response encodes
DirectoryOf(resp) ==
    CHOOSE d \in Directories : DirDoc(d.layout, d.entries) = resp

\* list without its repetitions, first occurrences kept
RECURSIVE Dedup(_)
Dedup(list) ==
    IF list = <<>> THEN <<>>
    ELSE LET front == Dedup(SubSeq(list, 1, Len(list) - 1))
             last  == list[Len(list)]
         IN IF InList(last, front) THEN front ELSE Append(front, last)

\* C8  AID enumeration completeness, as the specification states it: for
\* a directory response with several entries (0x61 templates holding a
\* 0x4F each, directly in the FCI, inside A5 or inside A5 / BF0C), the
\* extraction returns the value of every 0x4F, in input order, duplicates
\* removed with the first occurrence kept.
C8_AidEnumerationComplete ==
    (pc = "AIDS_EXTRACTED" /\ Len(DirectoryOf(pse_resp).entries) >= 2) =>
        aids = Dedup(DirectoryOf(pse_resp).entries)

----------------------------------------------------------------------------
(***************************************************************************)
(* The session as a running program: read_card is sequential code, so     *)
(* whenever it has a next step it takes one.                               *)
(***************************************************************************)
SpecLive == Init /\ [][Next]_vars /\ WF_vars(Next)

\* C11  Termination.  Whatever the card answers (61xx to everything, 6Cxx
\* to everything, any mix of payloads and status words), the session
\* reaches DONE or FAILED; the state graph is finite, so only finitely many
\* APDUs are transmitted on the way.
C11_Termination == <>(pc \in {"DONE", "FAILED"})

\* A card that answers 61xx to the READ RECORD and again to its GET
\* RESPONSE: the driver has stopped asking and classifies the attempt
C11_Witness ==
    /\ pc = "RR_CLASSIFY"
    /\ Len(wire) = 2
    /\ IsEmptyWith(wire[1].reply, \h61)
    /\ IsEmptyWith(wire[2].reply, \h61)
    /\ record_num = LastRecordNum

----------------------------------------------------------------------------
\* C12  Read-only discovery.  Every APDU transmitted is a SELECT by name
\* (00 A4 04 00 ...), a GET RESPONSE (00 C0 00 00 Le) or a READ RECORD
\* (00 B2 record P2 Le); the only others are the CLA = FF commands the
\* ACR122U driver sends to the reader during its initialisation.
C12_ReadOnlyDiscovery ==
    \A k \in 1..Len(wire) :
      LET c == wire[k].cmd
      IN \/ Len(c) >= 5 /\ SubSeq(c, 1, 4) = <<\h00, \hA4, \h04, \h00>>
         \/ Len(c) = 5 /\ SubSeq(c, 1, 4) = <<\h00, \hC0, \h00, \h00>>
         \/ Len(c) = 5 /\ SubSeq(c, 1, 2) = <<\h00, \hB2>>
         \/ /\ c[1] = \hFF
            /\ variant = "acr122u"
            /\ pc \in {"READER_INIT", "SELECT_DIR"}
            /\ Len(wire) = 1

\* One READ RECORD with all its follow-ups on the wire: the command, a GET
\* RESPONSE, the reissue with the corrected Le and a second GET RESPONSE
C12_Witness ==
    /\ pc = "RR_CLASSIFY"
    /\ Len(wire) = 4
    /\ wire[1].cmd[2] = \hB2
    /\ wire[2].cmd[2] = \hC0
    /\ wire[3].cmd[2] = \hB2
    /\ wire[4].cmd[2] = \hC0

----------------------------------------------------------------------------
\* The APDU log: send_apdu called over and over on one connection, with the
\* commands the discovery steps build and the follow-ups they issue.

\* Calls of send_apdu in one run
MaxLogExchanges == 3

\* The session variables a specification about one function leaves at rest
idleVars == <<connection, disconnects, error, transportFailed, init_step, pse_resp,
              aids, aid_idx, tried, select_resp, selected_aid, sfi_idx,
              record_num, apdu, consec_fail, swept, eof_high, saved>>

IdleInit ==
    /\ connection = "connected"
    /\ disconnects = 0
    /\ error = "none"
    /\ transportFailed = "none"
    /\ init_step = 1
    /\ pse_resp = <<>>
    /\ aids = <<>>
    /\ aid_idx = 1
    /\ tried = <<>>
    /\ select_resp = <<>>
    /\ selected_aid = <<>>
    /\ sfi_idx = 1
    /\ record_num = 1
    /\ apdu = <<>>
    /\ consec_fail = 0
    /\ swept = <<>>
    /\ eof_high = 0
    /\ saved = FALSE

\* toHexString: two hexadecimal digits for each byte
toHexString(bytes) == [k \in 1..Len(bytes) |-> <<bytes[k] \div 16, bytes[k] % 16>>]

\* hex(n) for a byte: no leading zero
hex(n) == IF n < 16 THEN <<n>> ELSE <<n \div 16, n % 16>>

\* The log lines, without their timestamp
LogRequest(cmd) ==
    [direction |-> ">", empty |-> FALSE, text |-> toHexString(cmd), sw |-> <<>>]

LogResponse(response, sw1, sw2) ==
    [direction |-> "<", empty |-> response = <<>>, text |-> toHexString(response),
     sw |-> <<hex(sw1), hex(sw2)>>]

LogError == [direction |-> "Error", empty |-> TRUE, text |-> <<>>, sw |-> <<>>]

\* A log_apdu that keeps only the line it has just written
log_apdu_overwrite(log, cmd, response, sw1, sw2, direction) ==
    <<IF direction = ">" THEN LogRequest(cmd) ELSE LogResponse(response, sw1, sw2)>>

\* log_apdu: the line is appended to self.apdu_log
log_apdu(log, cmd, response, sw1, sw2, direction) ==
    Append(log, IF direction = ">" THEN LogRequest(cmd)
                ELSE LogResponse(response, sw1, sw2))

\* self.apdu_log after send_apdu: the request line and the response line once
\* transmit has returned; the contact driver writes an error line when
\* transmit raises, the other drivers write nothing
send_apdu_log(v, log, cmd, reply) ==
    IF reply.ok
    THEN log_apdu(log_apdu(log, cmd, reply.data, reply.sw1, reply.sw2, ">"),
                  <<>>, reply.data, reply.sw1, reply.sw2, "<")
    ELSE IF v = "contact" THEN Append(log, LogError) ELSE log

\* Commands that open an operation, and the follow-up the last response asks for
LogCommands ==
    {SelectAidApdu(AidVisa), ReadRecordApdu(1, 1)}
    \cup (IF wire # <<>> /\ cur.sw1 = \h61 THEN {GetResponseApdu(cur.sw2)} ELSE {})
    \cup (IF wire # <<>> /\ cur.sw1 = \h6C
          THEN {WithLe(wire[Len(wire)].cmd, cur.sw2)} ELSE {})

LogReplies ==
    {Reply(RecordDoc, \h90, \h00), Reply(<<>>, \h61, \h12),
     Reply(<<>>, \h6C, \h1C), TransportFailure}

Init_Log ==
    /\ variant \in Variants
    /\ pc = "SEND_APDU"
    /\ cur = NoneResp
    /\ wire = <<>>
    /\ records = <<>>
    /\ IdleInit
    /\ OtherInit

\* One call of send_apdu; wire keeps every exchange of the run
SendApdu ==
    /\ pc = "SEND_APDU"
    /\ Len(wire) < MaxLogExchanges
    /\ \E cmd \in LogCommands, reply \in LogReplies :
        LET got == send_apdu(variant, reply)
        IN /\ wire' = Append(wire, [cmd |-> cmd, reply |-> reply])
           /\ apdu_log' = send_apdu_log(variant, apdu_log, cmd, reply)
           /\ cur' = IF got.raised THEN cur ELSE got.resp
           /\ pc' = IF got.raised THEN "FAILED" ELSE "SEND_APDU"
    /\ UNCHANGED <<variant, records, idleVars, cardVars, tlvVars>>

Next_Log == SendApdu

SpecLog == Init_Log /\ [][Next_Log]_vars

\* The exchanges whose transmit returned, in the order they were sent
Completed == SelectSeq(wire, LAMBDA x : x.reply.ok)

\* The request and response lines of the log, lines about failures left out
PairLines == SelectSeq(apdu_log, LAMBDA l : l.direction # "Error")

\* C13: the log holds, for each completed transmit and in transmission order,
\* one request line immediately followed by its response line (nothing stands
\* between the two), and the log only grows: what was appended stays as it was.
C13_ApduLog ==
    /\ [](/\ Len(PairLines) = 2 * Len(Completed)
          /\ \A k \in 1..Len(Completed) :
                /\ PairLines[2 * k - 1] = LogRequest(Completed[k].cmd)
                /\ PairLines[2 * k] = LogResponse(Completed[k].reply.data,
                                                  Completed[k].reply.sw1,
                                                  Completed[k].reply.sw2)
          /\ \A i \in 1..Len(apdu_log) :
                apdu_log[i].direction = ">"
                    => /\ i < Len(apdu_log)
                       /\ apdu_log[i + 1].direction = "<")
    /\ [][IsPrefix(apdu_log, apdu_log')]_vars

\* A READ RECORD reissued after 6C1C, then fetched with GET RESPONSE: six lines
C13_Witness ==
    /\ pc = "SEND_APDU"
    /\ Len(wire) = 3
    /\ wire[1].cmd = ReadRecordApdu(1, 1) /\ wire[1].reply.sw1 = \h6C
    /\ wire[2].cmd = WithLe(ReadRecordApdu(1, 1), \h1C) /\ wire[2].reply.sw1 = \h61
    /\ wire[3].cmd = GetResponseApdu(\h12) /\ Is9000(wire[3].reply)
    /\ Len(apdu_log) = 6

----------------------------------------------------------------------------
\* C14: the application SELECT counts as success, and the driver moves to
\* PARSE_FCI with that AID, if and only if the final status word of the
\* exchange is 9000, an empty response body included; any other status is a
\* selection failure.
C14_SelectionOutcome ==
    [][pc = "SELECT_APP_RESULT"
          => ((pc' = "PARSE_FCI" /\ selected_aid' = aids[aid_idx])
                <=> IsSuccess(cur))]_vars

----------------------------------------------------------------------------
(***************************************************************************)
(* parse_tlv_fixed(data, depth): keys are hex(tag), modelled as the tag    *)
(* integer (extract_from_tlv reads them back with int(key, 16)).           *)
(***************************************************************************)
\* The constructed tags parse_tlv_fixed recurses into
ParseTlvFixedTemplates == <<\h70, \h77, \hA5, \h6F, \h61>>

\* "for _ in range(num_length_bytes)": <<length, i>> after the loop
RECURSIVE read_length(_, _, _, _)
read_length(bytes, i, num_length_bytes, length) ==
    IF num_length_bytes = 0 \/ i >= Len(bytes) THEN <<length, i>>
    ELSE read_length(bytes, i + 1, num_length_bytes - 1, length * 256 + At(bytes, i))

RECURSIVE parse_tlv_fixed_loop(_, _, _)
parse_tlv_fixed_loop(bytes, i, dict) ==
    IF i >= Len(bytes) \/ i + 1 >= Len(bytes) THEN dict
    ELSE
      LET tag0  == At(bytes, i)
          multi == tag0 % 32 = 31
          tag   == IF multi THEN tag0 * 256 + At(bytes, i + 1) ELSE tag0
          i2    == IF multi THEN i + 2 ELSE i + 1
      IN
      IF i2 >= Len(bytes) THEN dict
      ELSE
        LET length_byte == At(bytes, i2)
            long   == length_byte >= 128
            lp     == IF long THEN read_length(bytes, i2 + 1, length_byte % 128, 0)
                      ELSE <<length_byte, i2 + 1>>
            i3     == lp[2]
            length == Min(lp[1], Len(bytes) - i3)
        IN
        IF i3 + length > Len(bytes) \/ length <= 0 THEN dict
        ELSE
          LET value == Slice(bytes, i3, i3 + length)
              entry == IF TagBit20(tag) /\ InList(tag, ParseTlvFixedTemplates)
                       THEN DictVal(parse_tlv_fixed_loop(value, 0, <<>>))
                       ELSE RawVal(value)
          IN parse_tlv_fixed_loop(bytes, i3 + length, DictSet(dict, tag, entry))

parse_tlv_fixed(bytes) == parse_tlv_fixed_loop(bytes, 0, <<>>)

(***************************************************************************)
(* extract_cardholder_data_fixed (contact driver).  A Python str is a      *)
(* sequence of one-character strings; card_data is a function from its     *)
(* keys to their values.                                                   *)
(***************************************************************************)
HexDigits == <<"0", "1", "2", "3", "4", "5", "6", "7",
               "8", "9", "A", "B", "C", "D", "E", "F">>

DecimalDigits == {HexDigits[k] : k \in 1..10}

\* f"{b:02X}"
Hex02X(b) == <<HexDigits[b \div 16 + 1], HexDigits[(b % 16) + 1]>>

\* ''.join(f"{b:02X}" for b in bytes)
HexJoin(bytes) == Concat([k \in 1..Len(bytes) |-> Hex02X(bytes[k])])

\* str.rstrip(ch)
RECURSIVE rstrip(_, _)
rstrip(str, ch) ==
    IF str # <<>> /\ str[Len(str)] = ch THEN rstrip(SubSeq(str, 1, Len(str) - 1), ch)
    ELSE str

\* str.isdigit()
isdigit(str) == str # <<>> /\ \A k \in 1..Len(str) : str[k] \in DecimalDigits

\* int(str) of two decimal digits, and f"{n:02d}"
DigitValue(ch) == CHOOSE d \in 0..9 : HexDigits[d + 1] = ch

int2(str) == 10 * DigitValue(str[1]) + DigitValue(str[2])

Dec02d(n) == <<HexDigits[((n \div 10) % 10) + 1], HexDigits[(n % 10) + 1]>>

\* str[-4:]
Last4(str) == SubSeq(str, Max(1, Len(str) - 3), Len(str))

\* f"{pan_str[:6]}******{pan_str[-4:]}"
masked_pan(pan_str) ==
    SubSeq(pan_str, 1, Min(6, Len(pan_str)))
        \o <<"*", "*", "*", "*", "*", "*">>
        \o Last4(pan_str)

\* card_data[key] = val, 'key' in card_data, len(card_data)
Put(card_data, key, val) == (key :> val) @@ card_data

Has(card_data, key) == key \in DOMAIN card_data

\* ''.join(chr(b) for b in name_bytes if 32 <= b <= 126).strip(); a
\* character is its code point
RECURSIVE lstrip_space(_)
lstrip_space(str) ==
    IF str # <<>> /\ str[1] = 32 THEN lstrip_space(Tail(str)) ELSE str

cardholder_name(name_bytes) ==
    lstrip_space(rstrip(SelectSeq(name_bytes, LAMBDA b : 32 <= b /\ b <= 126), 32))

\* f"20{year:02X}-{month:02X}-{day:02X}"
expiry_date(year, month, day) ==
    <<"2", "0">> \o Hex02X(year) \o <<"-">> \o Hex02X(month) \o <<"-">> \o Hex02X(day)

\* pan_str of a 0x5A value
pan_str_of(pan) == rstrip(HexJoin(pan), "F")

\* track2_str.split('D'): parts[0], and parts[1] when there is a 'D'
RECURSIVE UpTo(_, _)
UpTo(str, ch) ==
    IF str = <<>> \/ str[1] = ch THEN <<>> ELSE <<str[1]>> \o UpTo(Tail(str), ch)

Part0(str) == UpTo(str, "D")

Part1(str) == UpTo(SubSeq(str, Len(Part0(str)) + 2, Len(str)), "D")

\* The body of "if 'D' in track2_str:"; guarded is false in extract_from_tlv
\* and true in the pattern searches, which test 'pan' / 'expiry_date' not in card_data
track2_fields(track2, card_data, guarded) ==
    LET track2_str == HexJoin(track2)
        has_d      == \E k \in 1..Len(track2_str) : track2_str[k] = "D"
        pan_part   == Part0(track2_str)
        with_pan   ==
            IF /\ has_d
               /\ Len(pan_part) >= 8
               /\ (guarded => ~Has(card_data, "pan"))
               /\ isdigit(pan_part)
            THEN Put(Put(card_data, "track2_pan", pan_part),
                     "track2_pan_masked", masked_pan(pan_part))
            ELSE card_data
        expiry_part == SubSeq(Part1(track2_str), 1, 4)
    IN IF /\ has_d
          /\ Len(Part1(track2_str)) >= 4
          /\ (guarded => ~Has(card_data, "expiry_date"))
          /\ isdigit(expiry_part)
       THEN Put(with_pan, "track2_expiry",
                <<"2", "0">> \o Dec02d(int2(SubSeq(expiry_part, 1, 2)))
                    \o <<"-">> \o Dec02d(int2(SubSeq(expiry_part, 3, 4))))
       ELSE with_pan

\* One leaf of extract_from_tlv
extract_tag(tag, value, card_data) ==
    IF tag = \h5A
    THEN IF Len(value) >= 4 /\ Len(pan_str_of(value)) >= 8 /\ isdigit(pan_str_of(value))
         THEN Put(Put(card_data, "pan", pan_str_of(value)),
                  "pan_masked", masked_pan(pan_str_of(value)))
         ELSE card_data
    ELSE IF tag = \h5F24
    THEN IF Len(value) >= 3
         THEN Put(card_data, "expiry_date", expiry_date(value[1], value[2], value[3]))
         ELSE card_data
    ELSE IF tag = \h5F20
    THEN IF Len(cardholder_name(value)) > 1
         THEN Put(card_data, "cardholder_name", cardholder_name(value))
         ELSE card_data
    ELSE IF tag = \h57
    THEN track2_fields(value, card_data, FALSE)
    ELSE IF tag = \h5F30
    THEN Put(card_data, "service_code", HexJoin(value))
    ELSE card_data

\* Method 1: extract_from_tlv over the dictionary, in insertion order
RECURSIVE extract_from_tlv(_, _)
extract_from_tlv(tlv_dict, card_data) ==
    IF tlv_dict = <<>> THEN card_data
    ELSE LET e == Head(tlv_dict)
         IN extract_from_tlv(Tail(tlv_dict),
                IF e.val.kind = "dict" THEN extract_from_tlv(e.val.items, card_data)
                ELSE extract_tag(e.key, e.val.bytes, card_data))

\* One position of the pattern searches (methods 2 and 3: their tests at a
\* position exclude each other, so "elif" and "if" chains do the same)
pattern_at(bytes, i, card_data) ==
    LET n == Len(bytes)
    IN
    IF At(bytes, i) = \h5F /\ At(bytes, i + 1) = \h20
       /\ 1 <= At(bytes, i + 2) /\ At(bytes, i + 2) <= \h1F
    THEN LET name == cardholder_name(Slice(bytes, i + 3, i + 3 + At(bytes, i + 2)))
         IN IF /\ i + 3 + At(bytes, i + 2) <= n
               /\ Len(name) > 1
               /\ ~Has(card_data, "cardholder_name")
            THEN Put(card_data, "cardholder_name", name)
            ELSE card_data
    ELSE IF At(bytes, i) = \h5A /\ 4 <= At(bytes, i + 1) /\ At(bytes, i + 1) <= \h10
    THEN LET pan_str == pan_str_of(Slice(bytes, i + 2, i + 2 + At(bytes, i + 1)))
         IN IF /\ i + 2 + At(bytes, i + 1) <= n
               /\ Len(pan_str) >= 8
               /\ isdigit(pan_str)
               /\ ~Has(card_data, "pan")
            THEN Put(Put(card_data, "pan", pan_str), "pan_masked", masked_pan(pan_str))
            ELSE card_data
    ELSE IF At(bytes, i) = \h5F /\ At(bytes, i + 1) = \h24 /\ At(bytes, i + 2) = 3
    THEN IF i + 6 <= n /\ ~Has(card_data, "expiry_date")
         THEN Put(card_data, "expiry_date",
                  expiry_date(At(bytes, i + 3), At(bytes, i + 4), At(bytes, i + 5)))
         ELSE card_data
    ELSE IF At(bytes, i) = \h57 /\ At(bytes, i + 1) >= \h10
    THEN IF i + 2 + At(bytes, i + 1) <= n
         THEN track2_fields(Slice(bytes, i + 2, i + 2 + At(bytes, i + 1)),
                            card_data, TRUE)
         ELSE card_data
    ELSE card_data

\* "while i < len(all_data) - 4: ... i += 1"
RECURSIVE pattern_search(_, _, _)
pattern_search(bytes, i, card_data) ==
    IF i >= Len(bytes) - 4 THEN card_data
    ELSE LET found == pattern_at(bytes, i, card_data)
         IN IF found = card_data
            THEN pattern_search(bytes, i + 1, card_data)
            ELSE pattern_search(bytes, i + 1, found)

\* The record payloads in the order of records.values(): SFI by SFI, record
\* by record, as read_card_records inserted them
RECURSIVE InOrder(_)
InOrder(f) ==
    IF DOMAIN f = {} THEN <<>>
    ELSE LET k == CHOOSE x \in DOMAIN f : \A y \in DOMAIN f : x <= y
         IN <<f[k]>> \o InOrder([x \in DOMAIN f \ {k} |-> f[x]])

RecordList(recs) == Concat([k \in 1..Len(InOrder(recs)) |-> InOrder(InOrder(recs)[k])])

\* Method 3: the pattern search record by record
RECURSIVE search_records(_, _)
search_records(record_list, card_data) ==
    IF record_list = <<>> THEN card_data
    ELSE search_records(Tail(record_list),
                        pattern_search(Head(record_list), 0, card_data))

extract_cardholder_data_fixed(recs) ==
    LET all_data == Concat(RecordList(recs))
        method1  == extract_from_tlv(parse_tlv_fixed(all_data), <<>>)
        method2  == IF Cardinality(DOMAIN method1) < 3
                    THEN pattern_search(all_data, 0, method1) ELSE method1
    IN IF Cardinality(DOMAIN method2) < 3
       THEN search_records(RecordList(recs), method2) ELSE method2

----------------------------------------------------------------------------
\* Cardholder extraction and the session summary: extract_cardholder_data_fixed
\* and save_session_files of the contact driver applied to the records of one card.

\* The longest PAN a modelled card holds, in digits
MaxPanLen == 19

\* The digits of the modelled PANs: 4761 7390 0101 0010, repeated as needed
PanBase == <<4, 7, 6, 1, 7, 3, 9, 0, 0, 1, 0, 1, 0, 0, 1, 0>>

PanDigit(k) == PanBase[((k - 1) % 16) + 1]

\* The BCD value of a PAN of n digits, padded with an F nibble when n is odd
PanBytes(n) ==
    [j \in 1..((n + 1) \div 2) |->
        16 * PanDigit(2 * j - 1) + (IF 2 * j <= n THEN PanDigit(2 * j) ELSE 15)]

PanString(n) == [k \in 1..n |-> HexDigits[PanDigit(k) + 1]]

\* 0 stands for a card without the element 0x5A
PanElements ==
    {<<>>} \cup {Tlv(<<\h5A>>, PanBytes(n)) : n \in 6..MaxPanLen}

ExpiryElements == {<<>>, Tlv(<<\h5F, \h24>>, <<\h25, \h12, \h31>>)}

\* Track 2 as in the track-2 recovery scenario, and a longer one with
\* discretionary data
Track2Short ==
    <<\h47, \h61, \h73, \h90, \h01, \h01, \h00, \h10,
      \hD2, \h51, \h22, \h01, \h23, \h45, \h6F>>

Track2Long ==
    <<\h47, \h61, \h73, \h90, \h01, \h01, \h00, \h10,
      \hD2, \h51, \h22, \h01, \h00, \h00, \h01, \h23, \h45, \h67, \h8F>>

Track2Elements == {<<>>, Tlv(<<\h57>>, Track2Short), Tlv(<<\h57>>, Track2Long)}

\* "DOE/J"
NameElements == {<<>>, Tlv(<<\h5F, \h20>>, <<68, 79, 69, 47, 74>>)}

\* A record: the elements flat, in a record template 0x70, or in a
\* constructed element parse_tlv_fixed does not open (0xE1); track 2 first or last
RecordPayloads ==
    {IF w = "flat" THEN body ELSE Tlv(<<IF w = "70" THEN \h70 ELSE \hE1>>, body) :
        w \in {"flat", "70", "E1"},
        body \in {IF first THEN t \o p \o e \o n ELSE p \o e \o n \o t :
                    first \in BOOLEAN, p \in PanElements, e \in ExpiryElements,
                    t \in Track2Elements, n \in NameElements}}

\* Records of a card that spreads its data over two records of SFI 1: record
\* templates with some of PAN, expiry, name and service code, and one
\* constructed element parse_tlv_fixed does not open
PanElement16 == Tlv(<<\h5A>>, PanBytes(16))

ExpiryElement == Tlv(<<\h5F, \h24>>, <<\h25, \h12, \h31>>)

NameElement == Tlv(<<\h5F, \h20>>, <<68, 79, 69, 47, 74>>)

ServiceElement == Tlv(<<\h5F, \h30>>, <<\h02, \h01>>)

SplitPayloads ==
    {Tlv(<<\h70>>, body) :
        body \in {PanElement16, ExpiryElement, NameElement,
                  PanElement16 \o ExpiryElement,
                  ExpiryElement \o NameElement \o ServiceElement}}
    \cup {Tlv(<<\hE1>>, NameElement)}

TwoRecordCards ==
    {(1 :> ((1 :> first) @@ (2 :> second))) : first, second \in SplitPayloads}

Init_Cardholder ==
    /\ variant = "contact"
    /\ pc = "EXTRACT"
    /\ cur = NoneResp
    /\ wire = <<>>
    /\ records \in {(1 :> (1 :> payload)) : payload \in RecordPayloads}
                    \cup TwoRecordCards
    /\ IdleInit
    /\ OtherInit

\* cardholder_data = self.extract_cardholder_data_fixed(records)
ExtractCardholder ==
    /\ pc = "EXTRACT"
    /\ cardholder_data' = extract_cardholder_data_fixed(records)
    /\ pc' = "SAVE"
    /\ UNCHANGED <<variant, cur, wire, records, idleVars, apdu_log, summary, tlvVars>>

\* cardholder_data.get(key, 'Not found')
NotFound == <<"Not found">>

Get(card_data, key) == IF Has(card_data, key) THEN card_data[key] ELSE NotFound

\* save_session_files: the 'cardholder' object of card_summary.json, the PAN
\* lines of apdu_log.txt / card_info.txt / the HTML report (masked) and the
\* "**PAN:**" line of README.md under "Card Details"
SaveSessionFiles ==
    /\ pc = "SAVE"
    /\ summary' =
          [name        |-> Get(cardholder_data, "cardholder_name"),
           pan         |-> Get(cardholder_data, "pan"),
           pan_masked  |-> Get(cardholder_data, "pan_masked"),
           expiry_date |-> Get(cardholder_data, "expiry_date"),
           text_pan    |-> Get(cardholder_data, "pan_masked"),
           readme_pan  |-> IF Has(cardholder_data, "pan")
                           THEN cardholder_data["pan"] ELSE <<>>]
    /\ pc' = "SAVED"
    /\ UNCHANGED <<variant, cur, wire, records, idleVars, apdu_log,
                   cardholder_data, tlvVars>>

Next_Cardholder == ExtractCardholder \/ SaveSessionFiles

SpecCardholder == Init_Cardholder /\ [][Next_Cardholder]_vars

\* C15: for every accepted PAN of length n >= 10 the masked form has length n,
\* starts with the PAN's first six digits, ends with its last four, and has
\* '*' at every position in between.
C15_PanMasking ==
    (pc # "EXTRACT" /\ Has(cardholder_data, "pan")
        /\ Len(cardholder_data["pan"]) >= 10)
    => LET pan    == cardholder_data["pan"]
           masked == cardholder_data["pan_masked"]
           n      == Len(pan)
       IN /\ Len(masked) = n
          /\ SubSeq(masked, 1, 6) = SubSeq(pan, 1, 6)
          /\ SubSeq(masked, n - 3, n) = SubSeq(pan, n - 3, n)
          /\ \A k \in 7..(n - 4) : masked[k] = "*"

\* C16: no caller flag exists, so for every card read the session artifact
\* holds the masked PAN and nowhere the full digit string.
C16_UnmaskedPanGated ==
    (pc = "SAVED" /\ Has(cardholder_data, "pan"))
    => /\ summary.pan_masked = cardholder_data["pan_masked"]
       /\ summary.pan # cardholder_data["pan"]
       /\ summary.readme_pan # cardholder_data["pan"]

\* The record holds a 0x57 element whose value is track2
HoldsTrack2(track2) ==
    \E k \in 1..(Len(records[1][1]) - Len(track2) - 1) :
        SubSeq(records[1][1], k, k + 1 + Len(track2)) = Tlv(<<\h57>>, track2)

\* The record is one parse_tlv_fixed reads through
Readable == Len(records[1][1]) > 0 /\ records[1][1][1] # \hE1

\* C17: the digits before the first 'D' of a 0x57 value give a PAN and the
\* first four after it a YYMM expiry; these values are in the cardholder
\* result only when the primary tag (0x5A, 0x5F24) produced no value, and
\* when the primary tag is missing they are in the result.
C17_Track2Derivation ==
    pc # "EXTRACT"
    => /\ Has(cardholder_data, "track2_pan") => ~Has(cardholder_data, "pan")
       /\ Has(cardholder_data, "track2_expiry") => ~Has(cardholder_data, "expiry_date")
       /\ \A t \in {Track2Short, Track2Long} :
            HoldsTrack2(t) /\ Readable
            => /\ ~Has(cardholder_data, "pan")
                    => /\ Has(cardholder_data, "track2_pan")
                       /\ cardholder_data["track2_pan"] = PanString(16)
               /\ ~Has(cardholder_data, "expiry_date")
                    => /\ Has(cardholder_data, "track2_expiry")
                       /\ cardholder_data["track2_expiry"]
                            = <<"2", "0", "2", "5", "-", "1", "2">>

----------------------------------------------------------------------------
\* The TLV decoders parse_tlv_fixed and parse_tlv applied to byte lists:
\* well-formed BER-TLV documents, nested up to MaxNesting templates deep, and
\* every short byte list over a small alphabet.

\* Templates around the innermost elements of a modelled document
MaxNesting == 17

\* Primitive elements: two with the same tag, one of length zero, one with a
\* two-byte tag
Leaves ==
    {Tlv(<<\h5A>>, <<\h47, \h61>>), Tlv(<<\h4F>>, <<\h01>>), Tlv(<<\h4F>>, <<\h02>>),
     Tlv(<<\h50>>, <<>>), Tlv(<<\h5F, \h24>>, <<\h25, \h12, \h31>>)}

\* Up to two sibling elements
Siblings == {<<>>} \cup Leaves \cup {a \o b : a, b \in Leaves}

\* body inside k record templates
RECURSIVE NestDoc(_, _)
NestDoc(k, body) == IF k = 0 THEN body ELSE Tlv(<<\h70>>, NestDoc(k - 1, body))

WellFormedDocs == {NestDoc(k, body) : k \in 0..MaxNesting, body \in Siblings}

TlvAlphabet == {\h00, \h01, \h5A, \h70, \h81, \h9F}

ShortByteLists ==
    {<<>>} \cup {<<a>> : a \in TlvAlphabet} \cup {<<a, b>> : a, b \in TlvAlphabet}
        \cup {<<a, b, c>> : a, b, c \in TlvAlphabet}

\* FCI issuer discretionary data (0xBF0C) around sibling elements and around
\* a directory entry, alone and inside 6F / A5
DiscretionaryDocs ==
    {Tlv(<<\hBF, \h0C>>, body) : body \in Siblings \ {<<>>}}
    \cup {Tlv(<<\hBF, \h0C>>, DirEntry(AidVisa)),
          Tlv(<<\h6F>>, Tlv(<<\hA5>>, Tlv(<<\hBF, \h0C>>, DirEntry(AidVisa))))}

\* The value three bytes long that the long-form documents carry
LongFormValue == <<\h47, \h61, \h73>>

\* 5A with the length of value in long form on n length bytes, big-endian
LongFormDoc(n, value) ==
    <<\h5A, 128 + n>> \o [k \in 1..(n - 1) |-> 0] \o <<Len(value)>> \o value

LongFormDocs == {LongFormDoc(n, LongFormValue) : n \in 1..4}

Init_Tlv ==
    /\ variant = "contact"
    /\ pc \in {"PARSE_TLV_FIXED", "PARSE_TLV"}
    /\ cur = NoneResp
    /\ wire = <<>>
    /\ records = <<>>
    /\ data \in WellFormedDocs \cup ShortByteLists \cup DiscretionaryDocs
                 \cup LongFormDocs
    /\ tlv = <<>>
    /\ apdu_log = <<>>
    /\ cardholder_data = <<>>
    /\ summary = <<>>
    /\ IdleInit

\* tlv = self.parse_tlv_fixed(all_data)
ParseTlvFixed ==
    /\ pc = "PARSE_TLV_FIXED"
    /\ tlv' = parse_tlv_fixed(data)
    /\ pc' = "PARSED_FIXED"
    /\ UNCHANGED <<variant, cur, wire, records, idleVars, apdu_log, cardVars, data>>

\* tlv = self.parse_tlv(all_data)
ParseTlv ==
    /\ pc = "PARSE_TLV"
    /\ tlv' = parse_tlv(data)
    /\ pc' = "PARSED"
    /\ UNCHANGED <<variant, cur, wire, records, idleVars, apdu_log, cardVars, data>>

Next_Tlv == ParseTlvFixed \/ ParseTlv

SpecTlv == Init_Tlv /\ [][Next_Tlv]_vars

Parsed == pc \in {"PARSED_FIXED", "PARSED"}

\* The depth argument of the deepest call that built a dictionary of the tree
RECURSIVE Nesting(_)
Nesting(dict) ==
    IF dict = <<>> THEN 0
    ELSE Max(IF Head(dict).val.kind = "dict" THEN 1 + Nesting(Head(dict).val.items)
             ELSE 0,
             Nesting(Tail(dict)))

\* The byte lists the tree returns
RECURSIVE RawValues(_)
RawValues(dict) ==
    IF dict = <<>> THEN {}
    ELSE (IF Head(dict).val.kind = "dict" THEN RawValues(Head(dict).val.items)
          ELSE {Head(dict).val.bytes})
         \cup RawValues(Tail(dict))

IsSubSlice(value, bytes) ==
    \E k \in 1..(Len(bytes) - Len(value) + 1) :
        SubSeq(bytes, k, k + Len(value) - 1) = value

\* C18: on every byte list the decoder returns (it terminates and reads no
\* index outside its input), its recursion depth stays within 16, and every
\* value it returns is a sub-slice of the input.
C18_DecoderTotality ==
    Parsed => /\ Nesting(tlv) <= 16
              /\ \A value \in RawValues(tlv) : IsSubSlice(value, data)

\* BER encoding of a decoded tree, siblings in dictionary order, short-form
\* lengths; the tag of an entry is its key (parse_tlv_fixed) or the last tag
\* of its dotted key (parse_tlv)
TagBytes(tag) == IF tag >= 256 THEN <<tag \div 256, tag % 256>> ELSE <<tag>>

RECURSIVE Encode(_, _)
Encode(dict, dotted) ==
    IF dict = <<>> THEN <<>>
    ELSE LET e   == Head(dict)
             tag == IF dotted THEN get_tag_from_key(e.key) ELSE e.key
         IN Tlv(TagBytes(tag),
                IF e.val.kind = "dict" THEN Encode(e.val.items, dotted)
                ELSE e.val.bytes)
            \o Encode(Tail(dict), dotted)

\* C19: for every well-formed BER-TLV document, documents with repeated
\* sibling tags and zero-length primitive elements included, encoding the
\* tree the decoder returns gives back the input bytes, siblings in input order.
C19_DecoderRoundTrip ==
    (Parsed /\ data \in WellFormedDocs) => Encode(tlv, pc = "PARSED") = data

----------------------------------------------------------------------------
\* C20: every SELECT by name the driver transmits, the directory SELECT as
\* well as the application SELECT, is 00 A4 04 00 Lc name 00: Lc is the
\* length of the name and the Le byte 00 ends the command.
C20_SelectTemplate ==
    \A k \in 1..Len(wire) :
        LET c == wire[k].cmd
        IN (c[1] = \h00 /\ c[2] = \hA4)
           => /\ SubSeq(c, 1, 4) = <<\h00, \hA4, \h04, \h00>>
              /\ Len(c) = 5 + c[5] + 1
              /\ c[Len(c)] = \h00

----------------------------------------------------------------------------
\* rfid_card_reader.py: the module-level script.  It connects to the first
\* reader, sends SELECT for the Visa AID and then the five READ RECORD
\* commands of its APDUs table, whatever the SELECT returned; wire keeps
\* every exchange of the run and cardholder_data is its card_details.

\* APDUs['READ_CARD_NUMBER'] .. APDUs['READ_EXPIRY_DATE']
ScriptReadApdu(n) == <<\h00, \hB2, n, \h0C, \h00>>

ScriptKeys == <<"Card Number", "Card Holder Name", "Branch", "CVV", "Expiry Date">>

ScriptReplies ==
    {Reply(RecordDoc, \h90, \h00), Reply(<<>>, \h90, \h00),
     Reply(<<>>, \h6A, \h82), TransportFailure}

\* The module-level send_apdu: toHexString(response) on 9000, None (here
\* the empty string, equally false) otherwise; transmit may raise
script_send_apdu(reply) ==
    [raised |-> ~reply.ok,
     text   |-> IF reply.ok /\ reply.sw1 = \h90 /\ reply.sw2 = \h00
                THEN toHexString(reply.data) ELSE <<>>]

Init_Script ==
    /\ variant = "script"
    /\ pc \in {"SCRIPT_NO_READER", "SCRIPT_CONNECT"}
    /\ cur = NoneResp
    /\ wire = <<>>
    /\ records = <<>>
    /\ IdleInit
    /\ OtherInit

\* "if not readers: print(...); exit()"
ScriptNoReader ==
    /\ pc = "SCRIPT_NO_READER"
    /\ pc' = "FAILED"
    /\ UNCHANGED <<variant, cur, wire, records, idleVars, otherVars>>

\* connection = reader.createConnection(); connection.connect()
ScriptConnect ==
    /\ pc = "SCRIPT_CONNECT"
    /\ pc' \in {"SCRIPT_SELECT", "FAILED"}
    /\ UNCHANGED <<variant, cur, wire, records, idleVars, otherVars>>

\* response = send_apdu(APDUs['SELECT_APP']); the script goes on either way
ScriptSelect ==
    /\ pc = "SCRIPT_SELECT"
    /\ \E reply \in ScriptReplies :
        /\ wire' = Append(wire, [cmd |-> SelectAidApdu(AidVisa), reply |-> reply])
        /\ pc' = IF script_send_apdu(reply).raised THEN "FAILED" ELSE "SCRIPT_READ"
    /\ UNCHANGED <<variant, cur, records, idleVars, otherVars>>

\* One of the five reads: the value is kept when send_apdu returned a
\* non-empty string
ScriptRead ==
    /\ pc = "SCRIPT_READ"
    /\ \E reply \in ScriptReplies :
        LET n   == Len(wire)
            got == script_send_apdu(reply)
        IN /\ wire' = Append(wire, [cmd |-> ScriptReadApdu(n), reply |-> reply])
           /\ cardholder_data' =
                 IF ~got.raised /\ got.text # <<>>
                 THEN Put(cardholder_data, ScriptKeys[n], got.text)
                 ELSE cardholder_data
           /\ pc' = IF got.raised THEN "FAILED"
                    ELSE IF n = Len(ScriptKeys) THEN "DONE" ELSE "SCRIPT_READ"
    /\ UNCHANGED <<variant, cur, records, idleVars, apdu_log, summary, tlvVars>>

Next_Script == ScriptNoReader \/ ScriptConnect \/ ScriptSelect \/ ScriptRead

SpecScript == Init_Script /\ [][Next_Script]_vars

\* C21: no READ RECORD is transmitted unless an application SELECT earlier
\* in the same session completed with status 9000; when the application
\* selection fails the session ends without any READ RECORD.
C21_CommandOrdering ==
    \A k \in 1..Len(wire) :
        wire[k].cmd[2] = \hB2
        => \E j \in 1..(k - 1) :
              /\ wire[j].cmd[2] = \hA4
              /\ wire[j].cmd[Len(wire[j].cmd)] = \h00
              /\ Is9000(wire[j].reply)

----------------------------------------------------------------------------
\* What the byte-signature search finds in the stored records on its own
Scavenged == pattern_search(Concat(RecordList(records)), 0, <<>>)

\* C22: after the extraction, every field (name, PAN, expiry) that the TLV
\* decoding did not produce but that the byte-signature search of the stored
\* records recovers is in the result, however many other fields the TLV
\* decoding produced.
C22_PipelineAugments ==
    pc # "EXTRACT"
    => \A field \in {"cardholder_name", "pan", "expiry_date"} :
          Has(Scavenged, field) => Has(cardholder_data, field)

\* Method 1 alone: the fields the TLV decoding of the joined payloads gives
strict_fields(recs) ==
    extract_from_tlv(parse_tlv_fixed(Concat(RecordList(recs))), <<>>)

\* The two records of the card are record templates
TwoTemplates ==
    /\ DOMAIN records[1] = {1, 2}
    /\ records[1][1][1] = \h70
    /\ records[1][2][1] = \h70

\* C23: when the stored records are each a 0x70 template, a known tag with
\* a plausible value in any of them, not only in the last, is extracted by
\* the TLV decoding of the joined payloads.
C23_ConcatenatedCoversAll ==
    (pc # "EXTRACT" /\ TwoTemplates)
    => \A n \in {1, 2} :
          \A field \in DOMAIN strict_fields((1 :> (1 :> records[1][n]))) :
              Has(strict_fields(records), field)

----------------------------------------------------------------------------
\* The nodes of a decoded tree: their tag and whether the decoder opened them
RECURSIVE Nodes(_, _)
Nodes(dict, dotted) ==
    IF dict = <<>> THEN {}
    ELSE LET e == Head(dict)
         IN {[tag    |-> IF dotted THEN get_tag_from_key(e.key) ELSE e.key,
              opened |-> e.val.kind = "dict"]}
            \cup (IF e.val.kind = "dict" THEN Nodes(e.val.items, dotted) ELSE {})
            \cup Nodes(Tail(dict), dotted)

\* C24: the decoder opens a node exactly when its tag is one of 0x70, 0x77,
\* 0xA5, 0x6F, 0x61, 0xBF0C, so the children of a 0xBF0C node are decoded as
\* nodes; every other tag is kept as raw bytes.
C24_TemplateRecursion ==
    Parsed => \A node \in Nodes(tlv, pc = "PARSED") :
                 node.opened <=> node.tag \in {\h70, \h77, \hA5, \h6F, \h61, \hBF0C}

\* C25: a length octet 0x80|n, n in 1..4, makes the next n bytes the length
\* of the value, big-endian, in parse_tlv (directory and AID parsing) as in
\* parse_tlv_fixed (records and FCI).
C25_LongFormLength ==
    (Parsed /\ data \in LongFormDocs)
    => /\ Len(tlv) = 1
       /\ tlv[1].val = RawVal(LongFormValue)

----------------------------------------------------------------------------
\* extract_cardholder_data_fixed of the two contactless drivers
\* (emv_card_reader.py, emv_acr122u_reader.py), whose plausibility tests and
\* pattern searches differ from the contact driver's.

\* f"{(b >> 4) & 0xF}{b & 0xF}": the two nibbles in decimal
DecStr(n) == IF n < 10 THEN <<HexDigits[n + 1]>> ELSE <<"1", HexDigits[n - 9]>>

bcd_str(pan_bytes) ==
    Concat([k \in 1..Len(pan_bytes) |->
               DecStr(pan_bytes[k] \div 16) \o DecStr(pan_bytes[k] % 16)])

\* The body of "if 'D' in track2_str:" with parts[0] of at least 16 digits
track2_fields_v1(track2, card_data) ==
    LET track2_str == HexJoin(track2)
        has_d      == \E k \in 1..Len(track2_str) : track2_str[k] = "D"
        pan_part   == Part0(track2_str)
        with_pan   ==
            IF has_d /\ Len(pan_part) >= 16 /\ isdigit(pan_part)
            THEN Put(Put(card_data, "track2_pan", pan_part),
                     "track2_pan_masked", masked_pan(pan_part))
            ELSE card_data
        expiry_part == SubSeq(Part1(track2_str), 1, 4)
    IN IF has_d /\ Len(Part1(track2_str)) >= 4 /\ isdigit(expiry_part)
       THEN Put(with_pan, "track2_expiry",
                <<"2", "0">> \o Dec02d(int2(SubSeq(expiry_part, 1, 2)))
                    \o <<"-">> \o Dec02d(int2(SubSeq(expiry_part, 3, 4))))
       ELSE with_pan

\* One leaf of extract_from_tlv: the PAN needs 8 bytes and 16 decimal digits,
\* no padding is stripped; expiry, name and service code as in the contact driver
extract_tag_v1(tag, value, card_data) ==
    IF tag = \h5A
    THEN IF Len(value) >= 8 /\ Len(HexJoin(value)) >= 16 /\ isdigit(HexJoin(value))
         THEN Put(Put(card_data, "pan", HexJoin(value)),
                  "pan_masked", masked_pan(HexJoin(value)))
         ELSE card_data
    ELSE IF tag = \h57
    THEN track2_fields_v1(value, card_data)
    ELSE extract_tag(tag, value, card_data)

RECURSIVE extract_from_tlv_v1(_, _)
extract_from_tlv_v1(tlv_dict, card_data) ==
    IF tlv_dict = <<>> THEN card_data
    ELSE LET e == Head(tlv_dict)
         IN extract_from_tlv_v1(Tail(tlv_dict),
                IF e.val.kind = "dict" THEN extract_from_tlv_v1(e.val.items, card_data)
                ELSE extract_tag_v1(e.key, e.val.bytes, card_data))

\* The three signatures at position i, i < len(bytes) - 4: the plausible value
\* found there, or the empty string
name_at(bytes, i) ==
    IF /\ At(bytes, i) = \h5F /\ At(bytes, i + 1) = \h20
       /\ 1 <= At(bytes, i + 2) /\ At(bytes, i + 2) <= \h1F
       /\ i + 3 + At(bytes, i + 2) <= Len(bytes)
       /\ Len(cardholder_name(Slice(bytes, i + 3, i + 3 + At(bytes, i + 2)))) > 1
    THEN cardholder_name(Slice(bytes, i + 3, i + 3 + At(bytes, i + 2)))
    ELSE <<>>

pan_at(bytes, i) ==
    IF /\ At(bytes, i) = \h5A /\ 4 <= At(bytes, i + 1) /\ At(bytes, i + 1) <= \h0C
       /\ i + 2 + At(bytes, i + 1) <= Len(bytes)
       /\ Len(bcd_str(Slice(bytes, i + 2, i + 2 + At(bytes, i + 1)))) >= 16
       /\ isdigit(bcd_str(Slice(bytes, i + 2, i + 2 + At(bytes, i + 1))))
    THEN bcd_str(Slice(bytes, i + 2, i + 2 + At(bytes, i + 1)))
    ELSE <<>>

expiry_at(bytes, i) ==
    IF /\ At(bytes, i) = \h5F /\ At(bytes, i + 1) = \h24 /\ At(bytes, i + 2) = 3
       /\ i + 6 <= Len(bytes)
    THEN expiry_date(At(bytes, i + 3), At(bytes, i + 4), At(bytes, i + 5))
    ELSE <<>>

PutPan(card_data, pan_str) ==
    Put(Put(card_data, "pan", pan_str), "pan_masked", masked_pan(pan_str))

\* emv_acr122u_reader.py, pattern search: one loop, three "if"s, every match
\* assigns
acr_pattern_at(bytes, i, card_data) ==
    LET with_name == IF name_at(bytes, i) # <<>>
                     THEN Put(card_data, "cardholder_name", name_at(bytes, i))
                     ELSE card_data
        with_pan  == IF pan_at(bytes, i) # <<>>
                     THEN PutPan(with_name, pan_at(bytes, i)) ELSE with_name
    IN IF expiry_at(bytes, i) # <<>>
       THEN Put(with_pan, "expiry_date", expiry_at(bytes, i)) ELSE with_pan

RECURSIVE acr_pattern_search(_, _, _)
acr_pattern_search(bytes, i, card_data) ==
    IF i >= Len(bytes) - 4 THEN card_data
    ELSE LET found == acr_pattern_at(bytes, i, card_data)
         IN IF found = card_data
            THEN acr_pattern_search(bytes, i + 1, card_data)
            ELSE acr_pattern_search(bytes, i + 1, found)

extract_cardholder_data_fixed_acr(recs) ==
    LET all_data == Concat(RecordList(recs))
        method1  == extract_from_tlv_v1(parse_tlv_fixed(all_data), <<>>)
    IN IF DOMAIN method1 = {} THEN acr_pattern_search(all_data, 0, method1)
       ELSE method1

\* emv_card_reader.py, method 2: one loop per signature, left by "break" at
\* the first plausible match
RECURSIVE first_name(_, _)
first_name(bytes, i) ==
    IF i >= Len(bytes) - 4 THEN <<>>
    ELSE IF name_at(bytes, i) # <<>> THEN name_at(bytes, i)
    ELSE first_name(bytes, i + 1)

RECURSIVE first_pan(_, _)
first_pan(bytes, i) ==
    IF i >= Len(bytes) - 4 THEN <<>>
    ELSE IF pan_at(bytes, i) # <<>> THEN pan_at(bytes, i)
    ELSE first_pan(bytes, i + 1)

RECURSIVE first_expiry(_, _)
first_expiry(bytes, i) ==
    IF i >= Len(bytes) - 5 THEN <<>>
    ELSE IF expiry_at(bytes, i) # <<>> THEN expiry_at(bytes, i)
    ELSE first_expiry(bytes, i + 1)

v1_pattern_search(bytes) ==
    LET with_name == IF first_name(bytes, 0) # <<>>
                     THEN Put(<<>>, "cardholder_name", first_name(bytes, 0))
                     ELSE <<>>
        with_pan  == IF first_pan(bytes, 0) # <<>>
                     THEN PutPan(with_name, first_pan(bytes, 0)) ELSE with_name
    IN IF first_expiry(bytes, 0) # <<>>
       THEN Put(with_pan, "expiry_date", first_expiry(bytes, 0)) ELSE with_pan

\* emv_card_reader.py, method 3: one loop per record, every assignment under
\* "not in card_data"
v1_record_at(bytes, i, card_data) ==
    LET with_name == IF name_at(bytes, i) # <<>> /\ ~Has(card_data, "cardholder_name")
                     THEN Put(card_data, "cardholder_name", name_at(bytes, i))
                     ELSE card_data
        with_pan  == IF pan_at(bytes, i) # <<>> /\ ~Has(with_name, "pan")
                     THEN PutPan(with_name, pan_at(bytes, i)) ELSE with_name
    IN IF expiry_at(bytes, i) # <<>> /\ ~Has(with_pan, "expiry_date")
       THEN Put(with_pan, "expiry_date", expiry_at(bytes, i)) ELSE with_pan

RECURSIVE v1_record_search(_, _, _)
v1_record_search(bytes, i, card_data) ==
    IF i >= Len(bytes) - 4 THEN card_data
    ELSE LET found == v1_record_at(bytes, i, card_data)
         IN IF found = card_data
            THEN v1_record_search(bytes, i + 1, card_data)
            ELSE v1_record_search(bytes, i + 1, found)

RECURSIVE v1_search_records(_, _)
v1_search_records(record_list, card_data) ==
    IF record_list = <<>> THEN card_data
    ELSE v1_search_records(Tail(record_list),
                           v1_record_search(Head(record_list), 0, card_data))

extract_cardholder_data_fixed_v1(recs) ==
    LET all_data == Concat(RecordList(recs))
        method1  == extract_from_tlv_v1(parse_tlv_fixed(all_data), <<>>)
        method2  == IF DOMAIN method1 = {} THEN v1_pattern_search(all_data)
                    ELSE method1
    IN IF DOMAIN method2 = {} THEN v1_search_records(RecordList(recs), method2)
       ELSE method2

\* extract_cardholder_data_fixed of the driver in use
extract_of(v, recs) ==
    IF v = "contact" THEN extract_cardholder_data_fixed(recs)
    ELSE IF v = "v1" THEN extract_cardholder_data_fixed_v1(recs)
    ELSE extract_cardholder_data_fixed_acr(recs)

\* A second card's elements, and records in which an element occurs twice
PanElementB ==
    Tlv(<<\h5A>>, <<\h54, \h13, \h33, \h00, \h89, \h60, \h41, \h11>>)

ExpiryElementB == Tlv(<<\h5F, \h24>>, <<\h27, \h06, \h30>>)

\* "ROE/K"
NameElementB == Tlv(<<\h5F, \h20>>, <<82, 79, 69, 47, 75>>)

RepeatedPayloads ==
    {IF w = "flat" THEN body ELSE Tlv(<<IF w = "70" THEN \h70 ELSE \hE1>>, body) :
        w \in {"flat", "70", "E1"},
        body \in {NameElement \o NameElementB,
                  PanElement16 \o PanElementB,
                  ExpiryElement \o ExpiryElementB,
                  PanElement16 \o ExpiryElement \o NameElement
                      \o NameElementB \o ExpiryElementB \o PanElementB}}

RepeatedCards ==
    {(1 :> (1 :> payload)) : payload \in RepeatedPayloads}
    \cup {(1 :> ((1 :> Tlv(<<\hE1>>, first)) @@ (2 :> Tlv(<<\hE1>>, second)))) :
             first \in {NameElement, PanElement16},
             second \in {NameElementB, PanElementB, ExpiryElementB}}

Init_Extract ==
    /\ variant \in {"contact", "v1", "acr122u"}
    /\ pc = "EXTRACT_FIELDS"
    /\ cur = NoneResp
    /\ wire = <<>>
    /\ records \in {(1 :> (1 :> payload)) : payload \in RecordPayloads}
                    \cup TwoRecordCards \cup RepeatedCards
    /\ IdleInit
    /\ OtherInit

\* cardholder_data = self.extract_cardholder_data_fixed(records)
ExtractFields ==
    /\ pc = "EXTRACT_FIELDS"
    /\ cardholder_data' = extract_of(variant, records)
    /\ pc' = "EXTRACTED"
    /\ UNCHANGED <<variant, cur, wire, records, idleVars, apdu_log, summary, tlvVars>>

Next_Extract == ExtractFields

SpecExtract == Init_Extract /\ [][Next_Extract]_vars

\* The values of the 0x5A leaves of a decoded tree
RECURSIVE PanValues(_)
PanValues(dict) ==
    IF dict = <<>> THEN {}
    ELSE LET e == Head(dict)
         IN (IF e.val.kind = "dict" THEN PanValues(e.val.items)
             ELSE IF e.key = \h5A THEN {e.val.bytes} ELSE {})
            \cup PanValues(Tail(dict))

\* C26: a 0x5A value is accepted as the PAN if and only if its hex digits,
\* trailing 'F' padding stripped, are at least 8 and all decimal; otherwise
\* the field is omitted.
C26_PanPlausibility ==
    pc = "EXTRACTED" =>
        \A value \in PanValues(parse_tlv_fixed(Concat(RecordList(records)))) :
            (Len(rstrip(HexJoin(value), "F")) >= 8 /\ isdigit(rstrip(HexJoin(value), "F")))
            <=> (/\ Has(cardholder_data, "pan")
                 /\ cardholder_data["pan"] = rstrip(HexJoin(value), "F"))

\* What method 1 of the driver in use returns, and what the signatures of its
\* pattern search find at position i on their own
Method1 ==
    IF variant = "contact" THEN strict_fields(records)
    ELSE extract_from_tlv_v1(parse_tlv_fixed(Concat(RecordList(records))), <<>>)

ScanAt(i) ==
    IF variant = "contact" THEN pattern_at(Concat(RecordList(records)), i, <<>>)
    ELSE acr_pattern_at(Concat(RecordList(records)), i, <<>>)

Hits(field) ==
    {i \in 0..(Len(Concat(RecordList(records))) - 5) : Has(ScanAt(i), field)}

FirstHit(field) == CHOOSE i \in Hits(field) : \A j \in Hits(field) : i <= j

\* C27: a field the pattern search records (cardholder name, PAN, expiry
\* date) holds the plausible value at the lowest matching position of the
\* swept bytes; a later match never overwrites it.
C27_FirstMatchWins ==
    pc = "EXTRACTED" =>
        \A field \in {"cardholder_name", "pan", "expiry_date"} :
            (Has(cardholder_data, field) /\ ~Has(Method1, field) /\ Hits(field) # {})
            => cardholder_data[field] = ScanAt(FirstHit(field))[field]

----------------------------------------------------------------------------
\* extract_aids_from_pse on directory responses whose 0x4F elements are not
\* all well-formed AIDs, and on responses that hold the byte 0x4F in the
\* value of another element.

\* Values of a 0x4F element: empty, too short, of the shortest and longest
\* legal length, too long
AidValueLengths == {0, 1, 4, 5, 16, 17}

AidValue(n) == [k \in 1..n |-> IF k = 1 THEN \hA0 ELSE k - 1]

\* An application label that holds 'O' (0x4F) followed by a small byte
LabelWithO == Tlv(<<\h50>>, <<\h4F, \h01, \h58>>)

LabelWithAid == Tlv(<<\h50>>, <<\h4F, \h05>> \o AidValue(5))

CandidateBodies ==
    {Tlv(<<\h4F>>, AidValue(n)) : n \in AidValueLengths}
    \cup {DirEntry(AidValue(n)) : n \in AidValueLengths}
    \cup {LabelWithO, LabelWithAid,
          Tlv(<<\h61>>, Tlv(<<\h4F>>, AidVisa) \o LabelWithO),
          Tlv(<<\h61>>, LabelWithO \o Tlv(<<\h87>>, <<\h01>>)),
          DirEntry(AidVisa) \o DirEntry(AidValue(4)),
          DirEntry(AidValue(0)) \o DirEntry(AidVisa),
          Tlv(<<\h87>>, <<\h01>>)}

CandidateDocs ==
    {Tlv(<<\h6F>>, body) : body \in CandidateBodies}
    \cup {Tlv(<<\h6F>>, Tlv(<<\hA5>>, body)) : body \in CandidateBodies}
    \cup {Tlv(<<\h6F>>, Tlv(<<\h84>>, ppse_aid)
                          \o Tlv(<<\hA5>>, Tlv(<<\hBF, \h0C>>, body))) :
             body \in CandidateBodies}

Init_Candidates ==
    /\ variant = "contact"
    /\ pc = "EXTRACT_AIDS"
    /\ pse_resp \in CandidateDocs
    /\ aids = <<>>
    /\ connection = "connected"
    /\ disconnects = 0
    /\ error = "none"
    /\ cur = NoneResp
    /\ wire = <<>>
    /\ transportFailed = "none"
    /\ init_step = 1
    /\ aid_idx = 1
    /\ tried = <<>>
    /\ select_resp = <<>>
    /\ selected_aid = <<>>
    /\ sfi_idx = 1
    /\ record_num = 1
    /\ apdu = <<>>
    /\ records = <<>>
    /\ consec_fail = 0
    /\ swept = <<>>
    /\ eof_high = 0
    /\ saved = FALSE
    /\ OtherInit

SpecCandidates == Init_Candidates /\ [][Next_Aids]_vars

\* The values of the 0x4F elements of a BER-TLV document with short-form
\* lengths: a node is constructed when bit 0x20 of its first tag byte is set
RECURSIVE AidElements(_, _)
AidElements(bytes, i) ==
    IF i + 1 >= Len(bytes) THEN {}
    ELSE LET two    == At(bytes, i) % 32 = 31
             at_len == IF two THEN i + 1 ELSE i
             length == IF at_len + 1 <= Len(bytes) - 1 THEN At(bytes, at_len + 1) ELSE 0
             first  == at_len + 2
             value  == Slice(bytes, first, first + length)
         IN IF at_len + 1 >= Len(bytes) \/ length >= 128 \/ first + length > Len(bytes)
            THEN {}
            ELSE (IF ~two /\ At(bytes, i) = \h4F THEN {value} ELSE {})
                 \cup (IF (At(bytes, i) \div 32) % 2 = 1 THEN AidElements(value, 0) ELSE {})
                 \cup AidElements(bytes, first + length)

\* C28: every candidate AID is a fallback constant or the value of a 0x4F
\* element of the directory response, and is 5 to 16 bytes long; a 0x4F
\* inside another element's value, or a 0x4F element of length 0, yields no
\* candidate.
C28_AidValidity ==
    pc = "AIDS_EXTRACTED" =>
        \A k \in 1..Len(aids) :
            \/ InList(aids[k], fallback_aids)
            \/ /\ aids[k] \in AidElements(pse_resp, 0)
               /\ 5 <= Len(aids[k])
               /\ Len(aids[k]) <= 16

----------------------------------------------------------------------------
\* The commands of the record in progress with instruction byte ins
Sent(ins) == {k \in 1..Len(wire) : wire[k].cmd[2] = ins}

----------------------------------------------------------------------------
\* The digits a masked form shows
Shown(masked) == SelectSeq(masked, LAMBDA ch : ch # "*")

\* C30: for every PAN the extractor accepts the masked form
\* <first 6>******<last 4> shows fewer digits than the PAN has, so at least
\* one digit is concealed, for PANs of 8, 9 or 10 digits too.
C30_MaskHidesDigits ==
    (pc # "EXTRACT" /\ Has(cardholder_data, "pan"))
    => Len(Shown(cardholder_data["pan_masked"])) < Len(cardholder_data["pan"])

====
